---------------------------- MODULE Spec2Model ----------------------------
(***************************************************************************)
(* The scoreboard core of the plugin daemon (ScoreboardCore): the          *)
(* objective registry, the score cache, the debounced sync, the trigger    *)
(* registry and dispatcher, and the startup cleanup; and the player        *)
(* records of the PlayerInfo plugin (GetPlayerInfo, GetExtra, PutExtra).   *)
(*                                                                         *)
(* Text is modelled as TLA+ strings and the Go string, regexp, strconv and *)
(* base64 calls the handlers make are operators over those strings.        *)
(***************************************************************************)
EXTENDS Integers, Sequences, FiniteSets, TLC

(***************************************************************************)
(* Strings: the Go standard library calls the handlers use.                *)
(***************************************************************************)

\* s[i] as a one-character string (1-based).
Char(s, i) == SubSeq(s, i, i)

\* s[i-1:] of Go: the text from position i (1-based) to the end.
From(s, i) == SubSeq(s, i, Len(s))

\* Whether the literal lit occurs in s at position i.
HasAt(s, i, lit) ==
    /\ i >= 1
    /\ i + Len(lit) - 1 <= Len(s)
    /\ SubSeq(s, i, i + Len(lit) - 1) = lit

\* The first position from i on at which lit occurs in s, 0 when there is none.
RECURSIVE IndexFrom(_, _, _)
IndexFrom(s, lit, i) ==
    IF i + Len(lit) - 1 > Len(s) THEN 0
    ELSE IF HasAt(s, i, lit) THEN i
    ELSE IndexFrom(s, lit, i + 1)

\* strings.Index, 1-based, 0 when lit does not occur.
Index(s, lit) == IndexFrom(s, lit, 1)

\* strings.Contains
Contains(s, lit) == Index(s, lit) # 0

\* strings.Split(s, sep) for a non-empty separator.
RECURSIVE Split(_, _)
Split(s, sep) ==
    LET i == Index(s, sep)
    IN  IF i = 0 THEN <<s>>
        ELSE <<SubSeq(s, 1, i - 1)>> \o Split(From(s, i + Len(sep)), sep)

\* strings.Join
RECURSIVE Join(_, _)
Join(ss, sep) ==
    IF Len(ss) = 0 THEN ""
    ELSE IF Len(ss) = 1 THEN ss[1]
    ELSE ss[1] \o sep \o Join(Tail(ss), sep)

\* The characters of a text.  A text of the program is UTF-8; here it is
\* written in ASCII, as a Go string literal writes it: a character of ASCII
\* is itself, a backslash is `\\`, and a character outside ASCII is `\u` and
\* the four lower-case hexadecimal digits of its code point, so that U+00E9
\* and U+3000 are different characters of six letters each and neither is
\* taken for the bytes of another.  Rune(s) is the first character of a
\* text that is not empty, as utf8.DecodeRuneInString finds it.
Rune(s) ==
    LET hex == {"0", "1", "2", "3", "4", "5", "6", "7", "8", "9",
                "a", "b", "c", "d", "e", "f"}
    IN  IF /\ HasAt(s, 1, "\\u")
           /\ Len(s) >= 6
           /\ \A i \in 3..6 : SubSeq(s, i, i) \in hex
        THEN SubSeq(s, 1, 6)
        ELSE IF HasAt(s, 1, "\\\\") THEN SubSeq(s, 1, 2)
        ELSE SubSeq(s, 1, 1)

\* The white space of strings.TrimSpace (unicode.IsSpace): '\t', '\n', '\v',
\* '\f', '\r', ' ', U+0085, U+00A0 and, above Latin-1, U+1680, U+2000 to
\* U+200A, U+2028, U+2029, U+202F, U+205F and U+3000, and no other
\* character.
Space ==
    {" ", "\t", "\n", "\r", "\f", "", "\\u0085", "\\u00a0", "\\u1680",
     "\\u2000", "\\u2001", "\\u2002", "\\u2003", "\\u2004", "\\u2005",
     "\\u2006", "\\u2007", "\\u2008", "\\u2009", "\\u200a", "\\u2028",
     "\\u2029", "\\u202f", "\\u205f", "\\u3000"}

\* strings.TrimLeft(s, cutset): cut the leading characters that are in
\* cutset, as many as there are.
RECURSIVE TrimLeft(_, _)
TrimLeft(s, cutset) ==
    IF s = "" \/ Rune(s) \notin cutset THEN s
    ELSE TrimLeft(From(s, Len(Rune(s)) + 1), cutset)

\* strings.TrimRight(s, cutset): cut the trailing characters that are in
\* cutset.  The characters are those found from the start of the text:
\* what is left holds every character up to the last one not in cutset.
RECURSIVE TrimRight(_, _)
TrimRight(s, cutset) ==
    IF TrimLeft(s, cutset) = "" THEN ""
    ELSE Rune(s) \o TrimRight(From(s, Len(Rune(s)) + 1), cutset)

\* strings.Trim(s, cutset)
Trim(s, cutset) == TrimRight(TrimLeft(s, cutset), cutset)

\* strings.TrimSpace
TrimSpace(s) == Trim(s, Space)

\* A membership test that finds every name.
AlwaysContains(list, x) == TRUE

\* slices.Contains
SliceContains(list, x) == \E i \in 1..Len(list) : list[i] = x

\* \d of regexp
Digits == {"0", "1", "2", "3", "4", "5", "6", "7", "8", "9"}

DigitValue(c) ==
    CASE c = "0" -> 0 [] c = "1" -> 1 [] c = "2" -> 2 [] c = "3" -> 3
      [] c = "4" -> 4 [] c = "5" -> 5 [] c = "6" -> 6 [] c = "7" -> 7
      [] c = "8" -> 8 [] c = "9" -> 9

\* \w of regexp: [0-9A-Za-z_]
Letters ==
    {"A", "B", "C", "D", "E", "F", "G", "H", "I", "J", "K", "L", "M",
     "N", "O", "P", "Q", "R", "S", "T", "U", "V", "W", "X", "Y", "Z",
     "a", "b", "c", "d", "e", "f", "g", "h", "i", "j", "k", "l", "m",
     "n", "o", "p", "q", "r", "s", "t", "u", "v", "w", "x", "y", "z"}

WordChars == Letters \cup Digits \cup {"_"}

\* The end (1-based, inclusive) of the longest run of characters of class
\* that starts at position i; i - 1 when the run is empty.
RECURSIVE RunEnd(_, _, _)
RunEnd(s, i, class) ==
    IF i <= Len(s) /\ Char(s, i) \in class THEN RunEnd(s, i + 1, class) ELSE i - 1

\* The decimal digits of MaxInt64 = 1<<63 - 1, the largest value
\* strconv.ParseInt(s, 10, 64) accepts.
MaxInt64Digits == "9223372036854775807"

\* Whether the digit string a (no leading zeros) is a larger number than b.
RECURSIVE DigitsGreater(_, _)
DigitsGreater(a, b) ==
    IF Len(a) # Len(b) THEN Len(a) > Len(b)
    ELSE IF Len(a) = 0 THEN FALSE
    ELSE IF Char(a, 1) # Char(b, 1) THEN DigitValue(Char(a, 1)) > DigitValue(Char(b, 1))
    ELSE DigitsGreater(From(a, 2), From(b, 2))

RECURSIVE DecimalValue(_)
DecimalValue(ds) ==
    IF Len(ds) = 0 THEN 0
    ELSE 10 * DecimalValue(SubSeq(ds, 1, Len(ds) - 1)) + DigitValue(Char(ds, Len(ds)))

\* strconv.ParseInt(ds, 10, 64) on a non-empty string of digits (all the
\* callers pass a \d+ capture): the value, or a range error with the
\* largest int64, which is written by its digits (it is no integer of TLC).
ParseInt(ds) ==
    LET sig == TrimLeft(ds, {"0"})
    IN  IF DigitsGreater(sig, MaxInt64Digits)
        THEN [err |-> TRUE, value |-> MaxInt64Digits]
        ELSE [err |-> FALSE, value |-> DecimalValue(sig)]

(***************************************************************************)
(* base64 and the namespace                                                *)
(***************************************************************************)

\* The alphabet of base64.RawURLEncoding.
URLAlphabet ==
    "ABCDEFGHIJKLMNOPQRSTUVWXYZabcdefghijklmnopqrstuvwxyz0123456789-_"

\* The alphabet of base64.RawStdEncoding.
StdAlphabet ==
    "ABCDEFGHIJKLMNOPQRSTUVWXYZabcdefghijklmnopqrstuvwxyz0123456789+/"

\* Encoding.EncodeToString without padding: 3 bytes to 4 characters, a rest
\* of 1 byte to 2 characters and of 2 bytes to 3.
RECURSIVE Base64Raw(_, _)
Base64Raw(bytes, alphabet) ==
    LET c(v) == Char(alphabet, v + 1)
    IN  IF Len(bytes) = 0 THEN ""
        ELSE IF Len(bytes) = 1 THEN
            c(bytes[1] \div 4) \o c((bytes[1] % 4) * 16)
        ELSE IF Len(bytes) = 2 THEN
            c(bytes[1] \div 4)
            \o c((bytes[1] % 4) * 16 + bytes[2] \div 16)
            \o c((bytes[2] % 16) * 4)
        ELSE
            c(bytes[1] \div 4)
            \o c((bytes[1] % 4) * 16 + bytes[2] \div 16)
            \o c((bytes[2] % 16) * 4 + bytes[3] \div 64)
            \o c(bytes[3] % 64)
            \o Base64Raw(SubSeq(bytes, 4, Len(bytes)), alphabet)

\* binary.BigEndian.AppendUint64([]byte{}, xxhash.Sum64String(name)): the
\* eight bytes of the 64-bit hash of a plugin's Name(), most significant
\* first.  The values are those of XXH64 with seed 0.
HashBytes(name) ==
    CASE name = "StatusPlugin" -> <<234, 137, 231, 65, 127, 89, 72, 160>>
      [] name = "PlayerInfo"   -> <<82, 83, 58, 90, 45, 85, 173, 183>>
      [] name = "Plugin5338"   -> <<129, 70, 214, 148, 54, 238, 198, 44>>
      [] name = "Plugin6406"   -> <<4, 77, 191, 39, 54, 238, 198, 45>>

\* ScoreboardCore.getNamespace
getNamespace(context) ==
    SubSeq(Base64Raw(SubSeq(HashBytes(context), 5, 8), URLAlphabet), 1, 5)

\* fmt.Sprintf("%s_%s", sc.getNamespace(context), name)
Namespaced(context, name) == getNamespace(context) \o "_" \o name

(***************************************************************************)
(* Bounds and input sets                                                   *)
(***************************************************************************)

\* The clock stops at MaxTime ticks.
MaxTime == 5

\* Ticks of the model's clock in one second.
TicksPerSecond == 2

\* The plugins that call the core, by their Name().
Contexts == {"StatusPlugin", "PlayerInfo"}

\* Logical objective names the plugins use: an ordinary one, one of two
\* characters, and one that spells another objective's namespaced name.
Names == {"kills", "hp", Namespaced("StatusPlugin", "kills")}

Criteria == {"dummy"}

DisplayNames == {"Kills"}

Players == {"Alice", "Bob"}

ScoreActions == {"set", "add"}

Counts == {3}

(***************************************************************************)
(* State                                                                   *)
(***************************************************************************)

VARIABLES
    scorelist,   \* sc.scorelist: the registry, a sequence of namespaced names
    score,       \* sc.score: player -> address of the player's inner map
    heap,        \* the inner maps (Go maps are references): address -> (name -> value)
    trigger,     \* sc.trigger: trigger name -> callback
    timers,      \* every time.Timer made by requestSync: [armed, at]
    debounce,    \* sc.debounce: 0 (nil) or the index in timers of the last timer made
    now,         \* the clock, in ticks
    panicked,    \* a handler panicked (the goroutine, and without a recover the process, is gone)
    op,          \* the handler call that returned (or panicked) last and its arguments
    cmds,        \* the RunCommand texts that call issued, in order
    ret,         \* what that call returned (getOneScore: the score; registerTrigger: the names)
    spawned,     \* the callbacks that call started with `go`: <<callback, player, value>>
    lastRequest, \* history: the time of the last requestSync, -1 before the first
    syncsSince,  \* history: the timer-run syncs since the last requestSync
    created,     \* history: the namespaced names of the create commands issued, in order
    ensured,     \* history: the [context, name] ensureScoreboard was called with
    parsed,      \* history: the <<player, namespaced name>> whose get-score reply ever parsed
    snapshot,    \* the outer map the last getAllScore returned (player -> address), held by the caller
    bound,       \* history: trigger name -> the callbacks registerTrigger returned it for, in order
    trace,       \* what that call did, in order: locks taken and released, RunCommand calls, goroutines started
    server,      \* the names of the objectives the console holds
    running,     \* the goroutines inside a handler: goroutine -> its position and locals
    playerList,  \* pi.playerList: the players online, a sequence of names
    playerInfo,  \* pi.playerInfo: player -> address of the player's record
    infos        \* the MinecraftPlayerInfo records (pointers in Go): address -> the record

coreVars == <<scorelist, score, heap, trigger, timers, debounce>>

histVars == <<lastRequest, syncsSince, created, ensured, parsed, bound>>

\* What the handler that returned last left behind.
lastVars == <<op, cmds, ret, spawned, trace>>

vars == <<scorelist, score, heap, trigger, timers, debounce, now, panicked, op,
          cmds, ret, spawned, lastRequest, syncsSince, created, ensured, parsed,
          snapshot, bound, trace, server, running, playerList,
          playerInfo, infos>>

\* The state of the PlayerInfo plugin.
playerVars == <<playerList, playerInfo, infos>>

\* A map with no key (make(map...) or a map literal {}).
EmptyMap == <<>>

\* m with m[k] = v.
Put(m, k, v) == (k :> v) @@ m

\* The caller holds no snapshot.
NoSnapshot == [none |-> TRUE]

\* A handler call: its arguments and what the console fed it.
Call(call, context, name, player, input) ==
    [call |-> call, context |-> context, name |-> name, player |-> player,
     input |-> input]

\* The goroutines a specification runs the calls of plugins and the timer
\* functions in, step by step; goroutine 0 is the log reader's.
MaxGoroutines == 2

\* A goroutine that is in no handler (and has returned nothing).
Idle == [pc |-> "idle"]

\* ScoreboardCore.Init, the console holding the objectives objs.
InitCore(objs) ==
    /\ scorelist = <<>>
    /\ score = EmptyMap
    /\ heap = <<>>
    /\ trigger = EmptyMap
    /\ timers = <<>>
    /\ debounce = 0
    /\ now = 0
    /\ panicked = FALSE
    /\ op = Call("Init", "", "", "", "")
    /\ cmds = <<>>
    /\ ret = 0
    /\ spawned = <<>>
    /\ lastRequest = -1
    /\ syncsSince = 0
    /\ created = <<>>
    /\ ensured = {}
    /\ parsed = {}
    /\ snapshot = NoSnapshot
    /\ bound = EmptyMap
    /\ trace = <<>>
    /\ server = {objs[i] : i \in 1..Len(objs)}
    /\ running = [g \in 0..MaxGoroutines |-> Idle]

\* PlayerInfo.Init: the map is made and Load reads the stored records into
\* it; stored is the sequence of the records of the file, empty when there
\* is no file.  A record is known by its address, its index in infos.
Loaded(stored) ==
    /\ playerList = <<>>
    /\ infos = stored
    /\ playerInfo = [p \in {stored[i].Player : i \in 1..Len(stored)} |->
                         CHOOSE i \in 1..Len(stored) : stored[i].Player = p]

\* Both plugins initialised, with no stored player record.
InitWith(objs) == InitCore(objs) /\ Loaded(<<>>)

\* ScoreboardCore.Init, on a console with no objective.
Init == InitWith(<<>>)

(***************************************************************************)
(* What a handler does, in order                                           *)
(***************************************************************************)

\* sc.lock and sc.tlock
Locks == {"lock", "tlock"}

\* l.RLock(), l.RUnlock(), l.Lock() and l.Unlock()
RLock(l) == [event |-> "RLock", on |-> l]

RUnlock(l) == [event |-> "RUnlock", on |-> l]

Lock(l) == [event |-> "Lock", on |-> l]

Unlock(l) == [event |-> "Unlock", on |-> l]

\* sc.RunCommand(text): the call and the wait for the console's answer.
RunCommand(text) == [event |-> "RunCommand", on |-> text]

\* go callback(...)
Go(callback) == [event |-> "go", on |-> callback]

(***************************************************************************)
(* Goroutines                                                              *)
(*                                                                         *)
(* A handler runs in a goroutine, a step at a time.  A step takes the      *)
(* handler from where the last one left it to the next place where what    *)
(* another goroutine does can make a difference: the release of a lock,    *)
(* the answer of the console, an access of shared data under no lock.      *)
(* Every call begins with a step that makes the goroutine's frame and ends *)
(* with one that returns, or panics.                                       *)
(***************************************************************************)

\* The frame of a goroutine that has entered the handler of call and come to
\* pc: the call, the RunCommand texts it has issued, what it has done in
\* order, and its local variables l.
Frame(pc, call, l) ==
    [pc |-> pc, op |-> call, cmds |-> <<>>, trace |-> <<>>, l |-> l]

\* The frame f after the events,
Did(f, events) == [f EXCEPT !.trace = @ \o events]

\* and after the RunCommand calls with texts, each answered.
Ran(f, texts) ==
    [f EXCEPT !.cmds = @ \o texts,
              !.trace = @ \o [i \in 1..Len(texts) |-> RunCommand(texts[i])]]

\* Whether goroutine g is at pc in the handler of call.
At(g, pc, call) == running[g].pc = pc /\ running[g].op = call

\* The handler of frame f returns value in goroutine g.
Return(g, f, value) ==
    /\ running' = [running EXCEPT ![g] = Idle]
    /\ op' = f.op
    /\ cmds' = f.cmds
    /\ ret' = value
    /\ spawned' = <<>>
    /\ trace' = f.trace

\* The handler of frame f panics in goroutine g: with no recover the process
\* ends there.
Panic(g, f) ==
    /\ panicked' = TRUE
    /\ Return(g, f, 0)

\* Whether sc.lock can be taken: syncScore holds it from its Lock to its
\* return, over the get-score round trips; every other handler holds it
\* within one step.
LockFree == \A h \in DOMAIN running : running[h].pc # "syncScore.get"

(***************************************************************************)
(* The debounce timer                                                      *)
(***************************************************************************)

\* 1 * time.Second, in ticks.
DebounceWindow == 1 * TicksPerSecond

\* A timer whose time has come and whose function has not run yet.
Due(i) == timers[i].armed /\ timers[i].at <= now

\* Time passes, whether or not a timer is due: its function runs when the
\* runtime gets to it.
Tick ==
    /\ ~panicked
    /\ now < MaxTime
    /\ now' = now + 1
    /\ UNCHANGED <<coreVars, panicked, lastVars, histVars, snapshot, server, running,
                   playerVars>>

\* ScoreboardCore.requestSync, called last by ensureScoreboard, which
\* returns with it.  sc.debounce is read and written under no lock, so each
\* access is a step: the timer in sc.debounce is Reset (armed again, whether
\* or not it has fired), a new timer is made by time.AfterFunc, and the new
\* timer is stored in sc.debounce.
requestSync(g) ==
    \/ \* 128-130
       /\ ~panicked
       /\ running[g].pc = "requestSync"
       /\ timers' = IF debounce # 0
                    THEN [timers EXCEPT ![debounce] =
                              [armed |-> TRUE, at |-> now + DebounceWindow]]
                    ELSE timers
       /\ lastRequest' = now
       /\ syncsSince' = 0
       /\ running' = [running EXCEPT ![g].pc = "time.AfterFunc"]
       /\ UNCHANGED <<scorelist, score, heap, trigger, debounce, now, panicked,
                      lastVars, created, ensured, parsed, bound, snapshot, server,
                      playerVars>>
    \/ \* 131, the call
       /\ ~panicked
       /\ running[g].pc = "time.AfterFunc"
       /\ timers' = Append(timers, [armed |-> TRUE, at |-> now + DebounceWindow])
       /\ running' = [running EXCEPT ![g].pc = "sc.debounce",
                                     ![g].l = [timer |-> Len(timers')]]
       /\ UNCHANGED <<scorelist, score, heap, trigger, debounce, now, panicked,
                      lastVars, histVars, snapshot, server, playerVars>>
    \/ \* 131, the assignment, and the return of ensureScoreboard
       /\ ~panicked
       /\ running[g].pc = "sc.debounce"
       /\ debounce' = running[g].l.timer
       /\ Return(g, running[g], 0)
       /\ UNCHANGED <<scorelist, score, heap, trigger, timers, now, panicked,
                      histVars, snapshot, server, playerVars>>

(***************************************************************************)
(* The objective registry                                                  *)
(***************************************************************************)

\* name[9:] in ensureScoreboard's notice: a slice bound out of range, a
\* run-time panic, when the namespaced name has fewer than 9 bytes.  The
\* bytes are those of the name's UTF-8: one for a character of ASCII, two
\* for one from U+0080 to U+07FF, three for one from U+0800 to U+FFFF.
NoticePanics(nsname) ==
    LET bytes(c) ==
            IF Len(c) < 6 THEN 1
            ELSE IF SubSeq(c, 3, 4) = "00" /\ SubSeq(c, 5, 5) \in {"0", "1", "2", "3", "4", "5", "6", "7"}
            THEN 1
            ELSE IF SubSeq(c, 3, 3) = "0" /\ SubSeq(c, 4, 4) \in {"0", "1", "2", "3", "4", "5", "6", "7"}
            THEN 2
            ELSE 3
        RECURSIVE len(_)
        len(s) == IF s = "" THEN 0
                  ELSE bytes(Rune(s)) + len(From(s, Len(Rune(s)) + 1))
    IN  len(nsname) < 9

\* A create command that names the objective by its logical name.
CreateLogical(nsname, criterion, displayname) ==
    "scoreboard objectives add " \o From(nsname, 7) \o " " \o criterion \o " " \o displayname

\* fmt.Sprintf(`scoreboard objectives add %s %s %s`, name, criterion, displayname)
CreateCommand(nsname, criterion, displayname) ==
    "scoreboard objectives add " \o nsname \o " " \o criterion \o " " \o displayname

\* ScoreboardCore.ensureScoreboard in goroutine g, up to its call of
\* requestSync.
ensureScoreboard(g, context, name, criterion, displayname) ==
    LET nsname == Namespaced(context, name)
        call == Call("ensureScoreboard", context, name, "",
                     [criterion |-> criterion, displayname |-> displayname])
    IN  \/ \* 82-86: the lookup under the read lock
           /\ ~panicked
           /\ running[g].pc = "idle"
           /\ LockFree
           /\ running' = [running EXCEPT ![g] =
                  Did(Frame("ensureScoreboard.ok", call,
                            [ok |-> SliceContains(scorelist, nsname)]),
                      <<RLock("lock"), RUnlock("lock")>>)]
           /\ ensured' = ensured \cup {[context |-> context, name |-> name]}
           /\ UNCHANGED <<coreVars, now, panicked, lastVars, lastRequest, syncsSince,
                          created, parsed, bound, snapshot, server, playerVars>>
        \/ \* 87-103: the return, or the notice and the create command
           /\ ~panicked
           /\ At(g, "ensureScoreboard.ok", call)
           /\ IF running[g].l.ok THEN
                  /\ Return(g, running[g], 0)
                  /\ UNCHANGED <<panicked, created, server>>
              ELSE IF NoticePanics(nsname) THEN
                  /\ Panic(g, running[g])
                  /\ UNCHANGED <<created, server>>
              ELSE
                  /\ running' = [running EXCEPT ![g] =
                         [Ran(running[g], <<CreateCommand(nsname, criterion, displayname)>>)
                             EXCEPT !.pc = "ensureScoreboard.Lock"]]
                  /\ created' = Append(created, nsname)
                  /\ server' = server \cup {nsname}
                  /\ UNCHANGED <<panicked, lastVars>>
           /\ UNCHANGED <<coreVars, now, lastRequest, syncsSince, ensured, parsed,
                          bound, snapshot, playerVars>>
        \/ \* 104-106: the append under the write lock
           /\ ~panicked
           /\ At(g, "ensureScoreboard.Lock", call)
           /\ LockFree
           /\ scorelist' = Append(scorelist, nsname)
           /\ running' = [running EXCEPT ![g] =
                  [Did(running[g], <<Lock("lock"), Unlock("lock")>>)
                      EXCEPT !.pc = "requestSync"]]
           /\ UNCHANGED <<score, heap, trigger, timers, debounce, now, panicked,
                          lastVars, histVars, snapshot, server, playerVars>>

\* ScoreboardCore.displayScoreboard in goroutine g
displayScoreboard(g, context, name, slot) ==
    LET nsname == Namespaced(context, name)
        call == Call("displayScoreboard", context, name, "", slot)
    IN  \/ \* 134-138: the lookup under the read lock
           /\ ~panicked
           /\ running[g].pc = "idle"
           /\ LockFree
           /\ running' = [running EXCEPT ![g] =
                  Did(Frame("displayScoreboard.ok", call,
                            [ok |-> SliceContains(scorelist, nsname)]),
                      <<RLock("lock"), RUnlock("lock")>>)]
           /\ UNCHANGED <<coreVars, now, panicked, lastVars, histVars, snapshot,
                          server, playerVars>>
        \/ \* 139-143: the return, or the command and the return
           /\ ~panicked
           /\ At(g, "displayScoreboard.ok", call)
           /\ Return(g,
                     IF running[g].l.ok
                     THEN Ran(running[g],
                              <<"scoreboard objectives setdisplay " \o slot \o " " \o nsname>>)
                     ELSE running[g],
                     0)
           /\ UNCHANGED <<coreVars, now, panicked, histVars, snapshot, server,
                          playerVars>>

\* fmt's %d of a count of the model.
FormatInt(n) == IF n < 0 THEN "-" \o ToString(-n) ELSE ToString(n)

\* ScoreboardCore.scoreAction in goroutine g
scoreAction(g, context, player, name, action, count) ==
    LET nsname == Namespaced(context, name)
        call == Call("scoreAction", context, name, player,
                     [action |-> action, count |-> count])
    IN  \/ \* 145-149: the lookup under the read lock
           /\ ~panicked
           /\ running[g].pc = "idle"
           /\ LockFree
           /\ running' = [running EXCEPT ![g] =
                  Did(Frame("scoreAction.ok", call,
                            [ok |-> SliceContains(scorelist, nsname)]),
                      <<RLock("lock"), RUnlock("lock")>>)]
           /\ UNCHANGED <<coreVars, now, panicked, lastVars, histVars, snapshot,
                          server, playerVars>>
        \/ \* 150-154: the return, or the command and the return
           /\ ~panicked
           /\ At(g, "scoreAction.ok", call)
           /\ Return(g,
                     IF running[g].l.ok
                     THEN Ran(running[g],
                              <<"scoreboard players " \o action \o " " \o player \o " "
                                  \o nsname \o " " \o FormatInt(count)>>)
                     ELSE running[g],
                     0)
           /\ UNCHANGED <<coreVars, now, panicked, histVars, snapshot, server,
                          playerVars>>

(***************************************************************************)
(* The console's replies                                                   *)
(***************************************************************************)

\* What the console may answer to `scoreboard players get <player> <name>`:
\* a score of 5, a score of 7, or that the player has none.
ReplyKinds == {"has5", "has7", "none"}

\* The answer of each kind; a kind "has" followed by a number is the answer
\* for that score.
ConsoleScore(player, nsname, kind) ==
    IF kind = "none"
    THEN "Can't get value of " \o nsname \o " for " \o player \o "; none is set"
    ELSE player \o " has " \o From(kind, 4) \o " [" \o nsname \o "]"

\* What the console may answer to `scoreboard players list`.
ListReplies ==
    {"There are 1 tracked entity/entities: Alice",
     "There are 2 tracked entity/entities: Alice, Bob",
     "There are no tracked entities"}

\* One kind of get-score answer for each player, for the length of a sync.
Sheets == [Players -> ReplyKinds]

\* What the console answers to `scoreboard players list` when it tracks
\* players, in this order.
TrackedReply(players) ==
    IF Len(players) = 0 THEN "There are no tracked entities"
    ELSE "There are " \o ToString(Len(players)) \o " tracked entity/entities: "
         \o Join(players, ", ")

\* The players a console may track: none, one, two in an order that is not
\* that of their names, ten.
TrackedLists ==
    {<<>>, <<"Alice">>, <<"Bob", "Alice">>,
     <<"Alice", "Bob", "Carol", "Dave", "Erin", "Frank", "Grace", "Heidi", "Ivan",
       "Judy">>}

\* What the console answers when it does not know the command.
UnknownCommand == "Unknown or incomplete command, see below for error"

(***************************************************************************)
(* The score cache                                                         *)
(***************************************************************************)

\* `^.*? has (\d+)`: the first position from i on where ` has ` and a digit
\* follow, the text before it holding no line break (`.` matches none); 0
\* when there is none.
RECURSIVE ScoreAt(_, _)
ScoreAt(s, i) ==
    IF i + 5 > Len(s) THEN 0
    ELSE IF HasAt(s, i, " has ") /\ Char(s, i + 5) \in Digits THEN i
    ELSE IF Char(s, i) = "\n" THEN 0
    ELSE ScoreAt(s, i + 1)

\* ScoreboardTrackedPlayerScore.FindStringSubmatch: `^.*? has (\d+)`, the
\* whole match and the digits, or nothing.
ScoreMatch(s) ==
    LET i == ScoreAt(s, 1)
        e == RunEnd(s, i + 5, Digits)
    IN  IF i # 0 THEN <<SubSeq(s, 1, e), SubSeq(s, i + 5, e)>> ELSE <<>>

\* `.*?:`: the first colon from k on, on the same line; 0 when there is none.
RECURSIVE ColonAt(_, _)
ColonAt(s, k) ==
    IF k > Len(s) \/ Char(s, k) = "\n" THEN 0
    ELSE IF Char(s, k) = ":" THEN k
    ELSE ColonAt(s, k + 1)

\* `(.*)`: the last position of the line that starts at b; b - 1 when it is empty.
RECURSIVE LineEnd(_, _)
LineEnd(s, b) == IF b > Len(s) \/ Char(s, b) = "\n" THEN b - 1 ELSE LineEnd(s, b + 1)

\* `There are \d tracked .*?:`: the first position from j on where it
\* matches; 0 when there is none.
RECURSIVE TrackedAt(_, _)
TrackedAt(s, j) ==
    IF j > Len(s) THEN 0
    ELSE IF /\ HasAt(s, j, "There are ")
            /\ j + 10 <= Len(s)
            /\ Char(s, j + 10) \in Digits
            /\ HasAt(s, j + 11, " tracked ")
            /\ ColonAt(s, j + 20) # 0
    THEN j
    ELSE TrackedAt(s, j + 1)

\* ScoreboardTrackedPlayer.FindStringSubmatch:
\* `There are \d tracked .*?:\s?(.*)`, the whole match and the list, or nothing.
TrackedMatch(s) ==
    LET j == TrackedAt(s, 1)
        k == ColonAt(s, j + 20)
        b == IF k + 1 <= Len(s) /\ Char(s, k + 1) \in {" ", "\t", "\n", "\r", "\f"}
             THEN k + 2 ELSE k + 1
        e == LineEnd(s, b)
    IN  IF j # 0 THEN <<SubSeq(s, j, e), SubSeq(s, b, e)>> ELSE <<>>

\* A parse that takes a reply without a score for a score of 0.
ScoreOrZero(reply) ==
    LET scoreMatch == ScoreMatch(reply)
    IN  IF Len(scoreMatch) = 2
        THEN [ok |-> TRUE, value |-> ParseInt(scoreMatch[2]).value]
        ELSE [ok |-> TRUE, value |-> 0]

\* The result of the two steps every get-score reply goes through:
\* FindStringSubmatch with len(scoreMatch) == 2, then ParseInt with err == nil.
ScoreOf(reply) ==
    LET scoreMatch == ScoreMatch(reply)
    IN  IF Len(scoreMatch) = 2
        THEN LET r == ParseInt(scoreMatch[2])
             IN  [ok |-> ~r.err, value |-> r.value]
        ELSE [ok |-> FALSE, value |-> 0]

\* The text of a get-score command.
GetCommand(player, nsname) == "scoreboard players get " \o player \o " " \o nsname

\* The answer of a sheet for a player (none for a player it does not know).
SheetReply(sheet, player, nsname) ==
    ConsoleScore(player, nsname, IF player \in DOMAIN sheet THEN sheet[player] ELSE "none")

\* strings.Split of the list the enumeration reply ends with, each item
\* trimmed: trackedPlayers; none when the reply does not match.
trackedPlayers(listReply) ==
    LET m == TrackedMatch(listReply)
        items == Split(m[2], ",")
    IN  IF Len(m) = 0 THEN <<>> ELSE [i \in 1..Len(items) |-> TrimSpace(items[i])]

\* syncScore returns in goroutine g, its frame being f: the goroutine of a
\* timer ends, getAllScore goes on to its copy.
syncScoreReturn(g, f) ==
    IF f.op.call = "syncScore"
    THEN Return(g, f, 0)
    ELSE /\ running' = [running EXCEPT ![g] = [f EXCEPT !.pc = "getAllScore.RLock"]]
         /\ UNCHANGED lastVars

\* The outer map and the inner maps when syncScore comes to player: the
\* player's inner map is made when the cache has none.
made(outer, h, player) ==
    IF player \in DOMAIN outer THEN [score |-> outer, heap |-> h]
    ELSE [score |-> Put(outer, player, Len(h) + 1), heap |-> Append(h, EmptyMap)]

\* The inner maps of all of players, one after the other.
RECURSIVE madeAll(_, _, _)
madeAll(outer, h, players) ==
    IF Len(players) = 0 THEN [score |-> outer, heap |-> h]
    ELSE LET m == made(outer, h, players[1])
         IN  madeAll(m.score, m.heap, Tail(players))

\* ScoreboardCore.syncScore in goroutine g, from the answer to the list
\* command on: the goroutine is that of a timer or that of getAllScore.
\* The write lock is held from the match to the return, over every
\* get-score round trip.
syncScore(g) ==
    \/ \* 246-256: no match and the return; or the lock, the inner map of the
       \* first player and, with no objective, those of all and the return
       /\ ~panicked
       /\ running[g].pc = "syncScore.matched"
       /\ IF Len(TrackedMatch(running[g].op.input.list)) = 0 THEN
              /\ syncScoreReturn(g, running[g])
              /\ UNCHANGED <<score, heap>>
          ELSE
              /\ LockFree
              /\ \E players \in {trackedPlayers(running[g].op.input.list)} :
                 IF Len(scorelist) = 0 THEN
                     \E m \in {madeAll(score, heap, players)} :
                         /\ score' = m.score
                         /\ heap' = m.heap
                         /\ syncScoreReturn(g,
                                Did(running[g], <<Lock("lock"), Unlock("lock")>>))
                 ELSE
                     \E m \in {made(score, heap, players[1])} :
                         /\ score' = m.score
                         /\ heap' = m.heap
                         /\ running' = [running EXCEPT ![g] =
                                [Did(running[g], <<Lock("lock")>>)
                                    EXCEPT !.pc = "syncScore.get",
                                           !.l = [trackedPlayers |-> players,
                                                  i |-> 1, j |-> 1]]]
                         /\ UNCHANGED lastVars
       /\ UNCHANGED <<scorelist, trigger, timers, debounce, now, panicked, histVars,
                      snapshot, server, playerVars>>
    \/ \* 257-264: one get-score round trip and the store; then the next
       \* objective, the next player with its inner map, or the return
       /\ ~panicked
       /\ running[g].pc = "syncScore.get"
       /\ \E l \in {running[g].l} :
          \E player \in {l.trackedPlayers[l.i]}, nsname \in {scorelist[l.j]} :
          \E r \in {ScoreOf(SheetReply(running[g].op.input.sheet, player, nsname))} :
          \E f \in {Ran(running[g], <<GetCommand(player, nsname)>>)} :
          \E stored \in {IF r.ok
                         THEN [heap EXCEPT ![score[player]] = Put(@, nsname, r.value)]
                         ELSE heap} :
              /\ parsed' = IF r.ok THEN parsed \cup {<<player, nsname>>} ELSE parsed
              /\ IF l.j < Len(scorelist) THEN
                     /\ heap' = stored
                     /\ running' = [running EXCEPT ![g] = [f EXCEPT !.l.j = l.j + 1]]
                     /\ UNCHANGED <<score, lastVars>>
                 ELSE IF l.i < Len(l.trackedPlayers) THEN
                     \E m \in {made(score, stored, l.trackedPlayers[l.i + 1])} :
                         /\ score' = m.score
                         /\ heap' = m.heap
                         /\ running' = [running EXCEPT ![g] =
                                [f EXCEPT !.l.i = l.i + 1, !.l.j = 1]]
                         /\ UNCHANGED lastVars
                 ELSE
                     /\ heap' = stored
                     /\ syncScoreReturn(g, Did(f, <<Unlock("lock")>>))
                     /\ UNCHANGED score
       /\ UNCHANGED <<scorelist, trigger, timers, debounce, now, panicked,
                      lastRequest, syncsSince, created, ensured, bound, snapshot,
                      server, playerVars>>

\* The function of timer i runs in goroutine g: syncScore, up to the answer
\* listReply to its list command; sheet is what the console will answer to
\* the get-score commands of this sync.
TimerFire(i, g, listReply, sheet) ==
    /\ ~panicked
    /\ Due(i)
    /\ running[g].pc = "idle"
    /\ timers' = [timers EXCEPT ![i].armed = FALSE]
    /\ syncsSince' = syncsSince + 1
    /\ running' = [running EXCEPT ![g] =
           Ran(Frame("syncScore.matched",
                     Call("syncScore", "", "", "", [list |-> listReply, sheet |-> sheet]),
                     <<>>),
               <<"scoreboard players list">>)]
    /\ UNCHANGED <<scorelist, score, heap, trigger, debounce, now, panicked, lastVars,
                   lastRequest, created, ensured, parsed, bound, snapshot, server,
                   playerVars>>

\* ScoreboardCore.getAllScore in goroutine g: a full sync, then maps.Copy of
\* the outer map under the read lock.
getAllScore(g, listReply, sheet) ==
    LET call == Call("getAllScore", "", "", "", [list |-> listReply, sheet |-> sheet])
    IN  \/ \* 169-170, 245: the list command of syncScore
           /\ ~panicked
           /\ running[g].pc = "idle"
           /\ running' = [running EXCEPT ![g] =
                  Ran(Frame("syncScore.matched", call, <<>>),
                      <<"scoreboard players list">>)]
           /\ UNCHANGED <<coreVars, now, panicked, lastVars, histVars, snapshot,
                          server, playerVars>>
        \/ \* 171-174: the copy and the return
           /\ ~panicked
           /\ At(g, "getAllScore.RLock", call)
           /\ LockFree
           /\ snapshot' = score
           /\ Return(g, Did(running[g], <<RLock("lock"), RUnlock("lock")>>), 0)
           /\ UNCHANGED <<coreVars, now, panicked, histVars, server, playerVars>>

\* The key getOneScore reads the player's inner map with.
ReadKey(context, name) == name

\* ScoreboardCore.getOneScore in goroutine g, with the syncOneScore it
\* starts with; kind is what the console answers to the get-score command.
\* The write sc.score[player][name] panics (assignment to an entry of a nil
\* map) when the cache has no inner map for the player.
getOneScore(g, context, player, name, kind) ==
    LET nsname == Namespaced(context, name)
        key == ReadKey(context, name)
        call == Call("getOneScore", context, name, player, kind)
        read == IF player \in DOMAIN score /\ key \in DOMAIN heap[score[player]]
                THEN heap[score[player]][key]
                ELSE 0
    IN  \/ \* 178-181: the lookup under the read lock
           /\ ~panicked
           /\ running[g].pc = "idle"
           /\ LockFree
           /\ running' = [running EXCEPT ![g] =
                  Did(Frame("syncOneScore.ok", call,
                            [ok |-> SliceContains(scorelist, nsname)]),
                      <<RLock("lock"), RUnlock("lock")>>)]
           /\ UNCHANGED <<coreVars, now, panicked, lastVars, histVars, snapshot,
                          server, playerVars>>
        \/ \* 182-186: the get-score command; or, the objective not being
           \* registered, 158-165: the read and the return
           /\ ~panicked
           /\ At(g, "syncOneScore.ok", call)
           /\ IF running[g].l.ok THEN
                  /\ running' = [running EXCEPT ![g] =
                         [Ran(running[g], <<GetCommand(player, nsname)>>)
                             EXCEPT !.pc = "syncOneScore.Lock"]]
                  /\ UNCHANGED lastVars
              ELSE
                  /\ LockFree
                  /\ Return(g, Did(running[g], <<RLock("lock"), RUnlock("lock")>>), read)
           /\ UNCHANGED <<coreVars, now, panicked, histVars, snapshot, server,
                          playerVars>>
        \/ \* 187-196: the parse and the store under the write lock
           /\ ~panicked
           /\ At(g, "syncOneScore.Lock", call)
           /\ LockFree
           /\ \E r \in {ScoreOf(ConsoleScore(player, nsname, kind))} :
              \E f \in {Did(running[g], <<Lock("lock"), Unlock("lock")>>)} :
              IF r.ok /\ player \notin DOMAIN score THEN
                  /\ Panic(g, f)
                  /\ UNCHANGED <<heap, parsed>>
              ELSE
                  /\ heap' = IF r.ok
                             THEN [heap EXCEPT ![score[player]] = Put(@, nsname, r.value)]
                             ELSE heap
                  /\ parsed' = IF r.ok THEN parsed \cup {<<player, nsname>>} ELSE parsed
                  /\ running' = [running EXCEPT ![g] =
                         [f EXCEPT !.pc = "getOneScore.RLock"]]
                  /\ UNCHANGED <<panicked, lastVars>>
           /\ UNCHANGED <<scorelist, score, trigger, timers, debounce, now,
                          lastRequest, syncsSince, created, ensured, bound, snapshot,
                          server, playerVars>>
        \/ \* 158-165: the read under the read lock, and the return
           /\ ~panicked
           /\ At(g, "getOneScore.RLock", call)
           /\ LockFree
           /\ Return(g, Did(running[g], <<RLock("lock"), RUnlock("lock")>>), read)
           /\ UNCHANGED <<coreVars, now, panicked, histVars, snapshot, server,
                          playerVars>>

\* The caller of getAllScore writes an entry of a player's map in the
\* snapshot it was handed: snapshot[player][nsname] = value.
callerPutsScore(player, nsname, value) ==
    /\ ~panicked
    /\ snapshot # NoSnapshot
    /\ player \in DOMAIN snapshot
    /\ heap' = [heap EXCEPT ![snapshot[player]] = Put(@, nsname, value)]
    /\ UNCHANGED <<running, playerVars>>
    /\ op' = Call("callerPutsScore", "", nsname, player, "")
    /\ cmds' = <<>>
    /\ ret' = 0
    /\ spawned' = <<>>
    /\ trace' = <<>>
    /\ UNCHANGED <<scorelist, score, trigger, timers, debounce, now, panicked,
                   lastRequest, syncsSince, created, ensured, parsed, snapshot, bound,
                   server>>

\* The caller of getAllScore deletes a player from the snapshot it was
\* handed: delete(snapshot, player).
callerDeletesPlayer(player) ==
    /\ ~panicked
    /\ snapshot # NoSnapshot
    /\ player \in DOMAIN snapshot
    /\ snapshot' = [p \in DOMAIN snapshot \ {player} |-> snapshot[p]]
    /\ UNCHANGED <<running, playerVars>>
    /\ op' = Call("callerDeletesPlayer", "", "", player, "")
    /\ cmds' = <<>>
    /\ ret' = 0
    /\ spawned' = <<>>
    /\ trace' = <<>>
    /\ UNCHANGED <<scorelist, score, heap, trigger, timers, debounce, now, panicked,
                   lastRequest, syncsSince, created, ensured, parsed, bound, server>>

(***************************************************************************)
(* The trigger registry and dispatcher                                     *)
(***************************************************************************)

\* At most MaxDraws values are drawn from rand.Uint32 in one registerTrigger call.
MaxDraws == 3

\* At most MaxBatch callbacks are passed to one registerTrigger call.
MaxBatch == 2

\* The values rand.Uint32 is let to return.
TrigIdx == {0, 1}

\* The callbacks the plugins register.
Callbacks == {"onHome", "onBack"}

\* binary.BigEndian.AppendUint32([]byte{}, v)
AppendUint32(v) ==
    <<v \div 16777216, (v \div 65536) % 256, (v \div 256) % 256, v % 256>>

\* fmt.Sprintf("tri_%s_%s", namespace, base64.RawStdEncoding.EncodeToString(btrigidx))
TriggerName(namespace, trigIdx) ==
    "tri_" \o namespace \o "_" \o Base64Raw(AppendUint32(trigIdx), StdAlphabet)

\* fmt.Sprintf("scoreboard players enable @a %s", triggername)
EnableCommand(triggername) == "scoreboard players enable @a " \o triggername

\* A transaction that enables the trigger before it makes it.
EnableFirst(triggername) ==
    <<EnableCommand(triggername),
      "scoreboard objectives add " \o triggername \o " trigger">>

\* What registerTrigger appends to commandTransaction for one trigger.
TransactionFor(triggername) ==
    <<"scoreboard objectives add " \o triggername \o " trigger",
      EnableCommand(triggername)>>

\* An inner loop that leaves with its first candidate, bound or not.
AlwaysFresh(trig, triggername) == TRUE

\* Whether registerTrigger's inner loop leaves (break) with this candidate.
Fresh(trig, triggername) == triggername \notin DOMAIN trig

\* The inner loop of registerTrigger over draws, the values rand.Uint32
\* returns from now on: how many of them the loop uses, the last being the
\* one it leaves with; 0 when none of them lets it leave.
RECURSIVE PickDrawFrom(_, _, _, _)
PickDrawFrom(trig, namespace, draws, i) ==
    IF i > Len(draws) THEN 0
    ELSE IF Fresh(trig, TriggerName(namespace, draws[i])) THEN i
    ELSE PickDrawFrom(trig, namespace, draws, i + 1)

PickDraw(trig, namespace, draws) == PickDrawFrom(trig, namespace, draws, 1)

\* The outer loop of registerTrigger: st is [trigger, name, tx, ok, drawn],
\* and draws the values rand.Uint32 returns, all callbacks drawing from it in
\* turn; drawn counts the calls of rand.Uint32.
RECURSIVE registerLoop(_, _, _, _)
registerLoop(st, namespace, goFunc, draws) ==
    IF Len(goFunc) = 0 \/ ~st.ok THEN st
    ELSE LET used == PickDraw(st.trigger, namespace, draws)
             triggername == TriggerName(namespace, draws[used])
         IN  IF used = 0 THEN [st EXCEPT !.ok = FALSE]
             ELSE registerLoop(
                    [trigger |-> Put(st.trigger, triggername, goFunc[1]),
                     name |-> Append(st.name, triggername),
                     tx |-> st.tx \o TransactionFor(triggername),
                     ok |-> TRUE,
                     drawn |-> st.drawn + used],
                    namespace, Tail(goFunc), SubSeq(draws, used + 1, Len(draws)))

\* The callbacks a name was returned for, in order (none: never returned).
BoundTo(b, name) == IF name \in DOMAIN b THEN b[name] ELSE <<>>

\* bound after registerTrigger returned names for the callbacks goFunc.
RECURSIVE Returned(_, _, _)
Returned(b, names, goFunc) ==
    IF Len(names) = 0 THEN b
    ELSE Returned(Put(b, names[1], Append(BoundTo(b, names[1]), goFunc[1])),
                  Tail(names), Tail(goFunc))

\* The console after the `scoreboard objectives add` lines of a command
\* transaction for names.
AddObjectives(objs, names) == objs \cup {names[i] : i \in 1..Len(names)}

\* ScoreboardCore.registerTrigger in goroutine g, rand.Uint32 returning
\* draws.
registerTrigger(g, context, goFunc, draws) ==
    \/ \* 198-216: the names are drawn and bound under the trigger lock
       /\ ~panicked
       /\ running[g].pc = "idle"
       /\ \E st \in {registerLoop([trigger |-> trigger, name |-> <<>>, tx |-> <<>>,
                                   ok |-> TRUE, drawn |-> 0],
                                  getNamespace(context), goFunc, draws)} :
              /\ st.ok
              /\ st.drawn = Len(draws)
              /\ trigger' = st.trigger
              /\ bound' = Returned(bound, st.name, goFunc)
              /\ running' = [running EXCEPT ![g] =
                     Did(Frame("registerTrigger.RunCommand",
                               Call("registerTrigger", context, "", "",
                                    [goFunc |-> goFunc, draws |-> draws]),
                               [name |-> st.name, commandTransaction |-> st.tx]),
                         <<Lock("tlock"), Unlock("tlock")>>)]
       /\ UNCHANGED <<scorelist, score, heap, timers, debounce, now, panicked,
                      lastVars, lastRequest, syncsSince, created, ensured, parsed,
                      snapshot, server, playerVars>>
    \/ \* 217-224: the notice, the command transaction and the return
       /\ ~panicked
       /\ At(g, "registerTrigger.RunCommand",
             Call("registerTrigger", context, "", "",
                  [goFunc |-> goFunc, draws |-> draws]))
       /\ server' = AddObjectives(server, running[g].l.name)
       /\ Return(g, Ran(running[g], <<Join(running[g].l.commandTransaction, "\n")>>),
                 running[g].l.name)
       /\ UNCHANGED <<coreVars, now, panicked, histVars, snapshot, playerVars>>

\* What the parts of sc.triggerInfo report when they do not match.
NoMatch ==
    [ok |-> FALSE, player |-> "", trigger |-> "", set |-> "", added |-> "", end |-> 0]

\* sc.triggerInfo, after `\] ?`: the optional value group and the closing
\* bracket, `(?:\(set value to (\d+)\)|\(added (\d+) to value\))?\]`, at y.
ValueAt(s, y) ==
    LET se == RunEnd(s, y + 14, Digits)
        ae == RunEnd(s, y + 7, Digits)
    IN  IF HasAt(s, y, "(set value to ") /\ se >= y + 14 /\ HasAt(s, se + 1, ")]")
        THEN [NoMatch EXCEPT !.ok = TRUE, !.set = SubSeq(s, y + 14, se), !.end = se + 2]
        ELSE IF HasAt(s, y, "(added ") /\ ae >= y + 7 /\ HasAt(s, ae + 1, " to value)]")
        THEN [NoMatch EXCEPT !.ok = TRUE, !.added = SubSeq(s, y + 7, ae), !.end = ae + 11]
        ELSE IF HasAt(s, y, "]")
        THEN [NoMatch EXCEPT !.ok = TRUE, !.end = y]
        ELSE NoMatch

\* ` ?` at p: the position after the optional blank.
SkipBlank(s, p) == IF HasAt(s, p, " ") THEN p + 1 ELSE p

\* `\] ?` and what follows it, at x.
CloseAt(s, x) == IF HasAt(s, x, "]") THEN ValueAt(s, SkipBlank(s, x + 1)) ELSE NoMatch

\* `(.*?)\] ?(...)?\]` for a trigger name that starts at t0 and runs to x at
\* least: the name is the shortest text after which the rest matches, and
\* cannot run over a line break.
RECURSIVE NameAt(_, _, _)
NameAt(s, t0, x) ==
    IF x > Len(s) THEN NoMatch
    ELSE IF CloseAt(s, x).ok THEN [CloseAt(s, x) EXCEPT !.trigger = SubSeq(s, t0, x - 1)]
    ELSE IF Char(s, x) = "\n" THEN NoMatch
    ELSE NameAt(s, t0, x + 1)

\* `\[(\w+): ?Triggered ?\[(.*?)\] ?(...)?\]` at b: the captures.
BodyAt(s, b) ==
    LET we == RunEnd(s, b + 1, WordChars)
        c == SkipBlank(s, we + 2)
        d == SkipBlank(s, c + 9)
    IN  IF /\ HasAt(s, b, "[")
           /\ we >= b + 1
           /\ HasAt(s, we + 1, ":")
           /\ HasAt(s, c, "Triggered")
           /\ HasAt(s, d, "[")
        THEN [NameAt(s, d + 1, d + 1) EXCEPT !.player = SubSeq(s, b + 1, we)]
        ELSE NoMatch

\* `[^\]]+` at p: the end of the run, p - 1 when it is empty.
RECURSIVE TagEnd(_, _)
TagEnd(s, p) == IF p <= Len(s) /\ Char(s, p) # "]" THEN TagEnd(s, p + 1) ELSE p - 1

\* `(?: \[[^\]]+\])? ?` and the body, at p, with the bracketed tag.
TaggedAt(s, p) ==
    LET ge == TagEnd(s, p + 2)
    IN  IF HasAt(s, p, " [") /\ ge >= p + 2 /\ HasAt(s, ge + 1, "]")
        THEN BodyAt(s, SkipBlank(s, ge + 2))
        ELSE NoMatch

\* `\]:(?: \[[^\]]+\])? ?` and the body, at i: with the optional bracketed
\* tag when the rest matches after it, without it otherwise.
RestAt(s, i) ==
    IF ~HasAt(s, i, "]:") THEN NoMatch
    ELSE IF TaggedAt(s, i + 2).ok THEN TaggedAt(s, i + 2)
    ELSE BodyAt(s, SkipBlank(s, i + 2))

\* Where the line that holds position i starts: `.*?` does not cross a line break.
RECURSIVE LineStart(_, _)
LineStart(s, i) == IF i <= 1 \/ Char(s, i - 1) = "\n" THEN i ELSE LineStart(s, i - 1)

\* The five strings of FindStringSubmatch (the whole match, the player, the
\* trigger, the value set, the value added) for the match m of what follows
\* `.*?` at i.
Submatch(s, i, m) ==
    <<SubSeq(s, LineStart(s, i), m.end), m.player, m.trigger, m.set, m.added>>

\* The leftmost match of sc.triggerInfo that starts its `\]:` at i or later.
RECURSIVE MatchFrom(_, _)
MatchFrom(s, i) ==
    IF i > Len(s) THEN <<>>
    ELSE IF RestAt(s, i).ok THEN Submatch(s, i, RestAt(s, i))
    ELSE MatchFrom(s, i + 1)

\* sc.triggerInfo.FindStringSubmatch: the five strings of a match, or nothing.
TriggerMatch(s) == MatchFrom(s, 1)

\* int(parsedvalue) of strconv.ParseInt(digits, 10, 0) with the error
\* dropped: on a range error this is the largest int.
ParsedValue(digits) == ParseInt(digits).value

\* The value processTrigger hands to the callback.
TriggerValue(triggerInfo) ==
    IF triggerInfo[4] # "" THEN ParsedValue(triggerInfo[4])
    ELSE IF triggerInfo[5] # "" THEN ParsedValue(triggerInfo[5])
    ELSE 0

\* Whether processTrigger finds a callback for the trigger.
Bound(trig, name) == name \in DOMAIN trig

\* ScoreboardCore.processTrigger in goroutine g on the log line logText;
\* form, player, name and digits are what the line was made of.
processTrigger(g, logText, form, player, name, digits) ==
    LET call == Call("processTrigger", "", name, player,
                     [form |-> form, digits |-> digits])
    IN  \/ \* 58-75: the match and, for a line that matches, the lookup under
           \* the read lock of the triggers
           /\ ~panicked
           /\ running[g].pc = "idle"
           /\ \E triggerInfo \in {TriggerMatch(logText)} :
              running' = [running EXCEPT ![g] =
                  IF Len(triggerInfo) < 5
                  THEN Frame("processTrigger.ok", call, [ok |-> FALSE])
                  ELSE Did(Frame("processTrigger.ok", call,
                                 [ok |-> Bound(trigger, TrimSpace(triggerInfo[3])),
                                  player |-> TrimSpace(triggerInfo[2]),
                                  trigger |-> TrimSpace(triggerInfo[3]),
                                  value |-> TriggerValue(triggerInfo),
                                  triggerFunc |->
                                      IF Bound(trigger, TrimSpace(triggerInfo[3]))
                                      THEN trigger[TrimSpace(triggerInfo[3])]
                                      ELSE ""]),
                           <<RLock("tlock"), RUnlock("tlock")>>)]
           /\ UNCHANGED <<coreVars, now, panicked, lastVars, histVars, snapshot,
                          server, playerVars>>
        \/ \* 76-80: the enable command and the callback's goroutine, and the
           \* return
           /\ ~panicked
           /\ At(g, "processTrigger.ok", call)
           /\ \E l \in {running[g].l} :
              \E f \in {IF l.ok
                        THEN Did(Ran(running[g], <<EnableCommand(l.trigger)>>),
                                 <<Go(l.triggerFunc)>>)
                        ELSE running[g]} :
                  /\ running' = [running EXCEPT ![g] = Idle]
                  /\ op' = f.op
                  /\ cmds' = f.cmds
                  /\ ret' = 0
                  /\ spawned' = IF l.ok
                                THEN <<[callback |-> l.triggerFunc, player |-> l.player,
                                        value |-> l.value]>>
                                ELSE <<>>
                  /\ trace' = f.trace
           /\ UNCHANGED <<coreVars, now, panicked, histVars, snapshot, server,
                          playerVars>>

\* The lines the console logs.  A trigger fired by a player is logged as the
\* feedback of the player's command; "bare" is that feedback without the
\* logger's prefix, "chat" a line of chat.
LineForms == {"plain", "set", "added", "tagged", "bare", "chat"}

LogPrefix == "[Server thread/INFO]:"

LogLine(form, player, name, digits) ==
    CASE form = "plain" -> LogPrefix \o " [" \o player \o ": Triggered [" \o name \o "]]"
      [] form = "set" -> LogPrefix \o " [" \o player \o ": Triggered [" \o name
                           \o "] (set value to " \o digits \o ")]"
      [] form = "added" -> LogPrefix \o " [" \o player \o ": Triggered [" \o name
                             \o "] (added " \o digits \o " to value)]"
      [] form = "tagged" -> LogPrefix \o " [Not Secure] [" \o player \o ": Triggered ["
                              \o name \o "] (added " \o digits \o " to value)]"
      [] form = "bare" -> "[" \o player \o ": Triggered [" \o name \o "] (added "
                            \o digits \o " to value)]"
      [] OTHER -> LogPrefix \o " <" \o player \o "> Triggered [" \o name \o "]"

\* The trigger names a line may carry: two that registerTrigger can make for
\* one plugin, one it can make for another, and one with white space around
\* it, a blank before and U+3000 after.
LineTriggers ==
    {TriggerName(getNamespace("StatusPlugin"), 0),
     TriggerName(getNamespace("StatusPlugin"), 1),
     TriggerName(getNamespace("PlayerInfo"), 0),
     " " \o TriggerName(getNamespace("StatusPlugin"), 0) \o "\\u3000"}

\* What the lines of the log are made of, [form, player, name, digits]:
\* every trigger name with a value set, of one digit and of two, and with
\* none, and every other form for one trigger name.
LogInputs ==
    {[form |-> "set", player |-> "Alice", name |-> n, digits |-> d] :
        n \in LineTriggers, d \in {"3", "12"}}
    \cup {[form |-> "plain", player |-> "Bob", name |-> n, digits |-> ""] :
        n \in LineTriggers}
    \cup {[form |-> f, player |-> "Bob",
           name |-> TriggerName(getNamespace("StatusPlugin"), 0), digits |-> "3"] :
        f \in LineForms \ {"set", "plain"}}

(***************************************************************************)
(* Startup cleanup                                                         *)
(***************************************************************************)

\* What the console answers to `scoreboard objectives list` when it holds
\* the objectives objs.
ObjectiveListReply(objs) ==
    IF Len(objs) = 0 THEN "There are no objectives"
    ELSE "There are " \o ToString(Len(objs)) \o " objective(s): "
         \o Join([i \in 1..Len(objs) |-> "[" \o objs[i] \o "]"], ", ")

\* The objectives the console may hold at startup: triggers of an earlier
\* run, a plugin's objective, and a plugin's objective named tri_top.
ObjectiveLists ==
    {<<>>,
     <<"tri_f1lIo_AAAAAA">>,
     <<Namespaced("StatusPlugin", "kills"), "tri_LVWtt_AAAAAQ">>,
     <<"tri_f1lIo_AAAAAA", Namespaced("PlayerInfo", "tri_top")>>}

\* Whether clearTrigger takes an objective for a trigger.
IsTrigger(name) == Contains(name, "tri_")

\* strings.Trim(strings.TrimSpace(item), "[]")
TrimItem(item) == Trim(TrimSpace(item), {"[", "]"})

RemoveCommand(name) == "scoreboard objectives remove " \o name

\* The loop of clearTrigger over the listed names: commandList.
RECURSIVE commandList(_)
commandList(triggerStrList) ==
    IF Len(triggerStrList) = 0 THEN <<>>
    ELSE (IF IsTrigger(triggerStrList[1])
          THEN <<RemoveCommand(triggerStrList[1])>>
          ELSE <<>>) \o commandList(Tail(triggerStrList))

\* ScoreboardCore.clearTrigger: the commands it issues when the console
\* answers triggerListStr to the list command.
clearTrigger(triggerListStr) ==
    LET triggerStrList == Split(triggerListStr, ":")
        items == Split(triggerStrList[2], ",")
        trimmed == [i \in 1..Len(items) |-> TrimItem(items[i])]
    IN  IF Len(triggerStrList) = 2
        THEN <<"scoreboard objectives list", Join(commandList(trimmed), "\n")>>
        ELSE <<"scoreboard objectives list">>

\* The console after a transaction of `scoreboard objectives remove`
\* lines: the objectives no line names.
RemoveObjectives(objs, lines) ==
    {name \in objs : ~SliceContains(lines, RemoveCommand(name))}

\* The objectives the console holds, one after the other as it lists them
\* (in an order of its own).
RECURSIVE Listing(_)
Listing(objs) ==
    IF objs = {} THEN <<>>
    ELSE LET name == CHOOSE name \in objs : TRUE
         IN  <<name>> \o Listing(objs \ {name})

\* ScoreboardCore.Start in goroutine g, the console listing the objectives
\* objs it holds.
Start(g, objs) ==
    \/ \* 228: the list command
       /\ ~panicked
       /\ running[g].pc = "idle"
       /\ objs = Listing(server)
       /\ running' = [running EXCEPT ![g] =
              Ran(Frame("clearTrigger.triggerListStr", Call("Start", "", "", "", objs),
                        <<>>),
                  <<"scoreboard objectives list">>)]
       /\ UNCHANGED <<coreVars, now, panicked, lastVars, histVars, snapshot, server,
                      playerVars>>
    \/ \* 229-242: the remove commands, in one transaction, and the return
       /\ ~panicked
       /\ At(g, "clearTrigger.triggerListStr", Call("Start", "", "", "", objs))
       /\ \E commands \in {clearTrigger(ObjectiveListReply(objs))} :
              /\ server' = IF Len(commands) = 2
                           THEN RemoveObjectives(server, Split(commands[2], "\n"))
                           ELSE server
              /\ Return(g, Ran(running[g], Tail(commands)), 0)
       /\ UNCHANGED <<coreVars, now, panicked, histVars, snapshot, playerVars>>

(***************************************************************************)
(* The player records: MinecraftPlayerInfo.Extra                             *)
(***************************************************************************)

\* A map that was never made: the Extra of a record stored without one.
NilMap == [nil |-> TRUE]

\* What data/playerinfo.json may hold: no record; a record of Alice whose
\* Extra has one raw JSON value a plugin can decode and one it cannot; a
\* record of Alice without Extra.
StoredFiles ==
    {<<>>,
     <<[Player |-> "Alice", UUID |-> "00000001-0000-0002-0000-000300000004",
        Location |-> <<>>, playerInfo |-> FALSE,
        Extra |-> ("StatusPlugin" :> [type |-> "json.RawMessage", text |-> "7", value |-> 0])
                  @@ ("PlayerInfo" :> [type |-> "json.RawMessage", text |-> "\"x\"", value |-> 0])]>>,
     <<[Player |-> "Alice", UUID |-> "", Location |-> <<>>, playerInfo |-> FALSE,
        Extra |-> NilMap]>>}

\* json.Unmarshal(data, v) for v a pointer to an integer (an int of 64 bits)
\* that is 0: the number the text spells between JSON white space, with or
\* without a minus sign; null leaves the integer as it is; a number no int
\* holds (above 1<<63 - 1, below -1<<63) and any other text are an error.
Unmarshal(data) ==
    LET text == Trim(data, {" ", "\t", "\n", "\r"})
        minus == HasAt(text, 1, "-")
        ds == IF minus THEN From(text, 2) ELSE text
    IN  IF text = "null" THEN [err |-> FALSE, value |-> 0]
        ELSE IF /\ Len(ds) > 0
                /\ RunEnd(ds, 1, Digits) = Len(ds)
                /\ (Len(ds) = 1 \/ Char(ds, 1) # "0")
                /\ ~DigitsGreater(ds, IF minus THEN "9223372036854775808"
                                               ELSE MaxInt64Digits)
        THEN [err |-> FALSE,
              value |-> IF minus THEN -DecimalValue(ds) ELSE DecimalValue(ds)]
        ELSE [err |-> TRUE, value |-> 0]

\* A handler of the player records returns (ret, err) in goroutine g, its
\* frame being f: the goroutine has what it was returned.
Returns(g, f, value, err) ==
    running' = [running EXCEPT ![g] =
                   [pc |-> "idle", op |-> f.op, ret |-> value, err |-> err]]

\* The nil a handler returns for a value.
Nil == [type |-> "nil", text |-> "", value |-> 0]

\* MinecraftPlayerInfo.GetExtra in goroutine g, for the record at mpi.
GetExtra(g, mpi, context) ==
    LET call == Call("GetExtra", context, "", "", mpi)
        Extra == infos[mpi].Extra
    IN  \/ \* 69-71: the read under the read lock
           /\ ~panicked
           /\ running[g].pc = "idle"
           /\ running' = [running EXCEPT ![g] =
                  Did(Frame("GetExtra.ok", call,
                            IF Extra # NilMap /\ context \in DOMAIN Extra
                            THEN [ok |-> TRUE, extra |-> Extra[context]]
                            ELSE [ok |-> FALSE, extra |-> Nil]),
                      <<RLock("extraLock"), RUnlock("extraLock")>>)]
           /\ UNCHANGED <<coreVars, now, panicked, lastVars, histVars, snapshot,
                          server, playerVars>>
        \/ \* 72-88: the return of nil or of a value that is not raw JSON; or
           \* the raw value is decoded and the result stored under the write
           \* lock, and returned
           /\ ~panicked
           /\ At(g, "GetExtra.ok", call)
           /\ \E l \in {running[g].l} :
              IF ~l.ok \/ l.extra.type # "json.RawMessage" THEN
                  /\ Returns(g, running[g], l.extra, FALSE)
                  /\ UNCHANGED infos
              ELSE
                  \E r \in {Unmarshal(l.extra.text)} :
                  \E v \in {[type |-> "int", text |-> "", value |-> r.value]} :
                  IF r.err THEN
                      /\ Returns(g, running[g], Nil, FALSE)
                      /\ UNCHANGED infos
                  ELSE
                      /\ infos' = [infos EXCEPT ![mpi].Extra = Put(@, context, v)]
                      /\ Returns(g, running[g], v, FALSE)
           /\ UNCHANGED <<coreVars, now, panicked, lastVars, histVars, snapshot,
                          server, playerList, playerInfo>>

\* MinecraftPlayerInfo.PutExtra in goroutine g, for the record at mpi: the
\* store, under the write lock; an assignment to an entry of a map that was
\* never made panics.
PutExtra(g, mpi, context, extra) ==
    \E f \in {Did(Frame("PutExtra", Call("PutExtra", context, "", "",
                                         [mpi |-> mpi, extra |-> extra]), <<>>),
                  <<Lock("extraLock"), Unlock("extraLock")>>)} :
        /\ ~panicked
        /\ running[g].pc = "idle"
        /\ IF infos[mpi].Extra = NilMap THEN
               /\ Panic(g, f)
               /\ UNCHANGED infos
           ELSE
               /\ infos' = [infos EXCEPT ![mpi].Extra = Put(@, context, extra)]
               /\ Return(g, f, 0)
               /\ UNCHANGED panicked
        /\ UNCHANGED <<coreVars, now, histVars, snapshot, server, playerList,
                       playerInfo>>

(***************************************************************************)
(* The player records: PlayerInfo.GetPlayerInfo                              *)
(***************************************************************************)

\* Whether a goroutine is between the first and the last word of the
\* assignment to pi.playerList.
Storing(h) == running[h].pc = "updatePlayerList.playerList"

\* PlayerInfo.updatePlayerList in goroutine g: the names after the first
\* colon of the answer to `list`; an answer with no colon changes nothing.
\* The assignment to pi.playerList is made under pi.playerListLock, which
\* no reader of GetPlayerInfo takes: it is a step that begins and a step
\* that ends.
updatePlayerList(g, playerlistMsg) ==
    LET call == Call("updatePlayerList", "", "", "", playerlistMsg)
        k == Index(playerlistMsg, ":")
        playerList_ == Split(TrimSpace(From(playerlistMsg, k + 1)), ",")
    IN  \/ \* 240: the list command
           /\ ~panicked
           /\ running[g].pc = "idle"
           /\ running' = [running EXCEPT ![g] =
                  Ran(Frame("updatePlayerList.playerlistMsg", call, <<>>), <<"list">>)]
           /\ UNCHANGED <<coreVars, now, panicked, lastVars, histVars, snapshot,
                          server, playerVars>>
        \/ \* 241-245: the return; or the lock is taken and the assignment begins
           /\ ~panicked
           /\ At(g, "updatePlayerList.playerlistMsg", call)
           /\ IF k = 0 THEN
                  Return(g, running[g], 0)
              ELSE
                  /\ \A h \in DOMAIN running : ~Storing(h)
                  /\ running' = [running EXCEPT ![g] =
                         [Did(running[g], <<Lock("playerListLock")>>)
                             EXCEPT !.pc = "updatePlayerList.playerList",
                                    !.l = [playerList |->
                                              [i \in 1..Len(playerList_) |->
                                                  TrimSpace(playerList_[i])]]]]
                  /\ UNCHANGED lastVars
           /\ UNCHANGED <<coreVars, now, panicked, histVars, snapshot, server,
                          playerVars>>
        \/ \* 245-250: the assignment ends, and the return
           /\ ~panicked
           /\ At(g, "updatePlayerList.playerList", call)
           /\ playerList' = running[g].l.playerList
           /\ Return(g, Did(running[g], <<Unlock("playerListLock")>>), 0)
           /\ UNCHANGED <<coreVars, now, panicked, histVars, snapshot, server,
                          playerInfo, infos>>

\* What a read of pi.playerList under no lock of its writer may find.  With
\* no assignment under way, the list; during one, the old list, the new
\* one, or the array of one with the length of the other.
playerListRead ==
    LET Prefix(list, n) == SubSeq(list, 1, IF n < Len(list) THEN n ELSE Len(list))
    IN
    {playerList}
    \cup UNION {{running[h].l.playerList,
                 Prefix(running[h].l.playerList, Len(playerList)),
                 Prefix(playerList, Len(running[h].l.playerList))} :
                    h \in {h \in DOMAIN running : Storing(h)}}

\* Whether a read of pi.playerList may run past the end of an array: the
\* array of one list with the greater length of the other.
playerListFault ==
    \E h \in DOMAIN running :
        Storing(h) /\ Len(running[h].l.playerList) # Len(playerList)

\* PlayerInfo.GetPlayerInfo in goroutine g, but for its calls of
\* getPlayerUUID and getPlayerPosition.  It is called by a plugin, in an
\* idle goroutine, or by GetPlayerInfo_Position, which is then the input of
\* the call and gets what it returns.
GetPlayerInfo(g, player) ==
    LET called == running[g].pc = "GetPlayerInfo" /\ running[g].op.player = player
        call == Call("GetPlayerInfo", "", "", player,
                     IF running[g].pc = "idle" THEN ""
                     ELSE IF called THEN running[g].op.call
                     ELSE running[g].op.input)
        Back(value, err) ==
            IF call.input = "" THEN Returns(g, running[g], value, err)
            ELSE running' = [running EXCEPT ![g] =
                     [running[g] EXCEPT
                         !.pc = "GetPlayerInfo_Position.err",
                         !.op = Call(call.input, "", "", player, ""),
                         !.l = [playerInfo |-> value, err |-> err]]]
    IN  \/ \* 200-206: the player list and the map are read under the read
           \* lock of the map
           /\ ~panicked
           /\ (running[g].pc = "idle" \/ called)
           /\ \E seen \in playerListRead :
              running' = [running EXCEPT ![g] =
                  Did(Frame("GetPlayerInfo.ok", call,
                            [listed |-> SliceContains(seen, player),
                             ok |-> player \in DOMAIN playerInfo,
                             playerInfo |-> IF player \in DOMAIN playerInfo
                                            THEN playerInfo[player] ELSE 0]),
                      <<RLock("playerInfoLock"), RUnlock("playerInfoLock")>>)]
           /\ UNCHANGED <<coreVars, now, panicked, lastVars, histVars, snapshot,
                          server, playerVars>>
        \/ \* 201: the read of the player list runs past the end of an array
           /\ ~panicked
           /\ (running[g].pc = "idle" \/ called)
           /\ playerListFault
           /\ Panic(g, Did(Frame("GetPlayerInfo.ok", call, <<>>),
                           <<RLock("playerInfoLock")>>))
           /\ UNCHANGED <<coreVars, now, histVars, snapshot, server, playerVars>>
        \/ \* 202-216: the error for a player who is not listed; a new record
           \* is made and put in the map under the write lock; or the back
           \* pointer of the record found is set and its Extra read
           /\ ~panicked
           /\ At(g, "GetPlayerInfo.ok", call)
           /\ \E l \in {running[g].l} :
              IF ~l.listed THEN
                  /\ Back(0, TRUE)
                  /\ UNCHANGED <<playerInfo, infos>>
              ELSE IF ~l.ok THEN
                  /\ infos' = Append(infos, [Player |-> player, UUID |-> "",
                                             Location |-> <<>>,
                                             playerInfo |-> TRUE, Extra |-> EmptyMap])
                  /\ playerInfo' = Put(playerInfo, player, Len(infos'))
                  /\ running' = [running EXCEPT ![g] =
                         [Did(running[g], <<Lock("playerInfoLock"), Unlock("playerInfoLock")>>)
                             EXCEPT !.pc = "GetPlayerInfo.UUID",
                                    !.l = [playerInfo |-> Len(infos')]]]
              ELSE
                  /\ infos' = [infos EXCEPT ![l.playerInfo].playerInfo = TRUE]
                  /\ running' = [running EXCEPT
                         ![g].pc = IF infos[l.playerInfo].Extra = NilMap
                                   THEN "GetPlayerInfo.Extra" ELSE "GetPlayerInfo.UUID",
                         ![g].l = [playerInfo |-> l.playerInfo]]
                  /\ UNCHANGED playerInfo
           /\ UNCHANGED <<coreVars, now, panicked, lastVars, histVars, snapshot,
                          server, playerList>>
        \/ \* 215: the Extra of the record is made
           /\ ~panicked
           /\ At(g, "GetPlayerInfo.Extra", call)
           /\ infos' = [infos EXCEPT ![running[g].l.playerInfo].Extra = EmptyMap]
           /\ running' = [running EXCEPT ![g].pc = "GetPlayerInfo.UUID"]
           /\ UNCHANGED <<coreVars, now, panicked, lastVars, histVars, snapshot,
                          server, playerList, playerInfo>>
        \/ \* 218: the UUID of the record is read
           /\ ~panicked
           /\ At(g, "GetPlayerInfo.UUID", call)
           /\ running' = [running EXCEPT ![g].pc =
                  IF infos[running[g].l.playerInfo].UUID = ""
                  THEN "getPlayerUUID" ELSE "GetPlayerInfo.Location"]
           /\ UNCHANGED <<coreVars, now, panicked, lastVars, histVars, snapshot,
                          server, playerVars>>
        \/ \* 219-222: what getPlayerUUID returned is stored, an error with
           \* its empty UUID too, and returned
           /\ ~panicked
           /\ At(g, "GetPlayerInfo.UUID=", call)
           /\ infos' = [infos EXCEPT ![running[g].l.playerInfo].UUID = running[g].l.uuid]
           /\ IF running[g].l.err
              THEN Back(0, TRUE)
              ELSE running' = [running EXCEPT
                       ![g].pc = "GetPlayerInfo.Location",
                       ![g].l = [playerInfo |-> running[g].l.playerInfo]]
           /\ UNCHANGED <<coreVars, now, panicked, lastVars, histVars, snapshot,
                          server, playerList, playerInfo>>
        \/ \* 224, 230: the Location of the record is read; the record is
           \* returned when it has one
           /\ ~panicked
           /\ At(g, "GetPlayerInfo.Location", call)
           /\ IF infos[running[g].l.playerInfo].Location = <<>>
              THEN running' = [running EXCEPT ![g].pc = "getPlayerPosition"]
              ELSE Back(running[g].l.playerInfo, FALSE)
           /\ UNCHANGED <<coreVars, now, panicked, lastVars, histVars, snapshot,
                          server, playerVars>>
        \/ \* 225-230: what getPlayerPosition returned is stored, an error
           \* with its nil position too, and the error or the record returned
           /\ ~panicked
           /\ At(g, "GetPlayerInfo.Location=", call)
           /\ infos' = [infos EXCEPT ![running[g].l.playerInfo].Location =
                            running[g].l.position]
           /\ IF running[g].l.err
              THEN Back(0, TRUE)
              ELSE Back(running[g].l.playerInfo, FALSE)
           /\ UNCHANGED <<coreVars, now, panicked, lastVars, histVars, snapshot,
                          server, playerList, playerInfo>>

\* PlayerInfo.getPlayerUUID in goroutine g: uuid is the UUID the answer of
\* the console spells, or the error for an answer that spells none.
getPlayerUUID(g, uuid) ==
    /\ ~panicked
    /\ running[g].pc = "getPlayerUUID"
    /\ running' = [running EXCEPT ![g] =
           [Ran(running[g], <<"data get entity " \o running[g].op.player \o " UUID">>)
               EXCEPT !.pc = "GetPlayerInfo.UUID=",
                      !.l = [playerInfo |-> running[g].l.playerInfo,
                             uuid |-> uuid.uuid, err |-> uuid.err]]]
    /\ UNCHANGED <<coreVars, now, panicked, lastVars, histVars, snapshot, server,
                   playerVars>>

\* PlayerInfo.getPlayerPosition in goroutine g: entityPosList is the list of
\* numbers the answer to the first command spells, or the error for an
\* answer that spells none; entityDim is the dimension the answer to the
\* second spells, or the error.  The conversion of entityPosList to an
\* array of three panics when the list has fewer than three numbers, and
\* drops what follows the third.  What it returns goes to its caller,
\* GetPlayerInfo or GetPlayerInfo_Position.
getPlayerPosition(g, entityPosList, entityDim) ==
    \/ \* 160-176: the position
       /\ ~panicked
       /\ running[g].pc = "getPlayerPosition"
       /\ \E f \in {Ran(running[g], <<"data get entity " \o running[g].op.player \o " Pos">>)} :
          IF entityPosList.err THEN
              /\ running' = [running EXCEPT ![g] =
                     [f EXCEPT !.pc = f.op.call \o ".Location=",
                               !.l = [playerInfo |-> f.l.playerInfo,
                                      position |-> <<>>, err |-> TRUE]]]
              /\ UNCHANGED <<panicked, lastVars>>
          ELSE IF Len(entityPosList.list) < 3 THEN
              Panic(g, f)
          ELSE
              /\ running' = [running EXCEPT ![g] =
                     [f EXCEPT !.pc = "getPlayerPosition.Dimension",
                               !.l = [playerInfo |-> f.l.playerInfo,
                                      Position |-> SubSeq(entityPosList.list, 1, 3)]]]
              /\ UNCHANGED <<panicked, lastVars>>
       /\ UNCHANGED <<coreVars, now, histVars, snapshot, server, playerVars>>
    \/ \* 177-183: the dimension
       /\ ~panicked
       /\ running[g].pc = "getPlayerPosition.Dimension"
       /\ running' = [running EXCEPT ![g] =
              [Ran(running[g], <<"data get entity " \o running[g].op.player \o " Dimension">>)
                  EXCEPT !.pc = running[g].op.call \o ".Location=",
                         !.l = [playerInfo |-> running[g].l.playerInfo,
                                position |-> IF entityDim.err THEN <<>>
                                             ELSE <<[Position |-> running[g].l.Position,
                                                     Dimension |-> entityDim.dimension]>>,
                                err |-> entityDim.err]]]
       /\ UNCHANGED <<coreVars, now, panicked, lastVars, histVars, snapshot, server,
                      playerVars>>

\* PlayerInfo.GetPlayerInfo_Position in goroutine g, but for its calls of
\* GetPlayerInfo and getPlayerPosition: the position is asked for and
\* stored whether the record has one or not.
GetPlayerInfo_Position(g, player) ==
    LET call == Call("GetPlayerInfo_Position", "", "", player, "")
    IN  \/ \* 187: GetPlayerInfo is called
           /\ ~panicked
           /\ running[g].pc = "idle"
           /\ running' = [running EXCEPT ![g] = Frame("GetPlayerInfo", call, <<>>)]
           /\ UNCHANGED <<coreVars, now, panicked, lastVars, histVars, snapshot,
                          server, playerVars>>
        \/ \* 188-191: its error is returned; or getPlayerPosition is called
           /\ ~panicked
           /\ At(g, "GetPlayerInfo_Position.err", call)
           /\ IF running[g].l.err
              THEN Returns(g, running[g], 0, TRUE)
              ELSE running' = [running EXCEPT
                       ![g].pc = "getPlayerPosition",
                       ![g].l = [playerInfo |-> running[g].l.playerInfo]]
           /\ UNCHANGED <<coreVars, now, panicked, lastVars, histVars, snapshot,
                          server, playerVars>>
        \/ \* 191-195: what getPlayerPosition returned is stored, an error
           \* with its nil position too, and the error or the record returned
           /\ ~panicked
           /\ At(g, "GetPlayerInfo_Position.Location=", call)
           /\ infos' = [infos EXCEPT ![running[g].l.playerInfo].Location =
                            running[g].l.position]
           /\ IF running[g].l.err
              THEN Returns(g, running[g], 0, TRUE)
              ELSE Returns(g, running[g], running[g].l.playerInfo, FALSE)
           /\ UNCHANGED <<coreVars, now, panicked, lastVars, histVars, snapshot,
                          server, playerList, playerInfo>>

(***************************************************************************)
(* Specifications                                                          *)
(***************************************************************************)

\* The sequences of 1..n elements of S.
SeqsUpTo(S, n) == UNION {[1..k -> S] : k \in 1..n}

\* Plugins ensure objectives, in the goroutines gs.
Ensure(gs, contexts, names) ==
    \/ \E g \in gs, context \in contexts, name \in names, criterion \in Criteria,
          displayname \in DisplayNames :
            ensureScoreboard(g, context, name, criterion, displayname)
    \/ \E g \in gs : requestSync(g)

\* Plugins display objectives and change scores, in the goroutines gs.
Use(gs, contexts, names, players) ==
    \/ \E g \in gs, context \in contexts, name \in names, slot \in {"sidebar"} :
            displayScoreboard(g, context, name, slot)
    \/ \E g \in gs, context \in contexts, player \in players, name \in names,
          action \in ScoreActions, count \in Counts :
            scoreAction(g, context, player, name, action, count)

\* Time passes, and the functions of the debounce timers run the full sync
\* in the goroutines gs.
TimerSteps(gs, listReplies, sheets) ==
    \/ Tick
    \/ \E i \in 1..Len(timers), g \in gs, listReply \in listReplies, sheet \in sheets :
            TimerFire(i, g, listReply, sheet)
    \/ \E g \in gs : syncScore(g)

\* Plugins read the score cache, in the goroutines gs.
Read(gs, contexts, names, listReplies, sheets) ==
    \/ \E g \in gs, context \in contexts, player \in Players, name \in names,
          kind \in ReplyKinds :
            getOneScore(g, context, player, name, kind)
    \/ \E g \in gs, listReply \in listReplies, sheet \in sheets :
            getAllScore(g, listReply, sheet)
    \/ \E g \in gs : syncScore(g)

\* The caller of getAllScore changes the snapshot it holds.
CallerSteps ==
    \/ \E player \in Players, i \in 1..Len(scorelist), value \in {7} :
            callerPutsScore(player, scorelist[i], value)
    \/ \E player \in Players :
            callerDeletesPlayer(player)

\* Plugins of contexts register up to batch triggers each, or none, in the
\* goroutines gs, rand.Uint32 returning up to MaxDraws values to a call.
RegisterBy(gs, contexts, batch) ==
    \E g \in gs, context \in contexts, goFunc \in {<<>>} \cup SeqsUpTo(Callbacks, batch),
       draws \in {<<>>} \cup SeqsUpTo(TrigIdx, MaxDraws) :
        registerTrigger(g, context, goFunc, draws)

\* The console logs a line made of one of inputs, which the goroutine g of
\* the log reader hands to processTrigger.
LogStepsOf(g, inputs) ==
    \E l \in inputs :
        processTrigger(g, LogLine(l.form, l.player, l.name, l.digits),
                       l.form, l.player, l.name, l.digits)

\* The plugin manager starts the core, in goroutine g; the console lists
\* what it holds when the list command runs.
StartSteps(g) ==
    \E objs \in (IF running[g].pc = "clearTrigger.triggerListStr"
                 THEN {running[g].op.input} ELSE {Listing(server)}) :
        Start(g, objs)

\* Every handler, with every input of the model: plugins call in goroutine
\* 1, the timer functions run in goroutine 2, and the log reader hands its
\* lines to processTrigger in goroutine 0.
Next ==
    \/ Ensure({1}, Contexts, Names)
    \/ Use({1}, Contexts, Names, Players)
    \/ TimerSteps({2}, ListReplies, Sheets)
    \/ Read({1}, Contexts, Names, ListReplies, Sheets)
    \/ CallerSteps
    \/ RegisterBy({1}, Contexts, MaxBatch)
    \/ LogStepsOf(0, LogInputs)
    \/ StartSteps(1)

Spec == Init /\ [][Next]_vars

\* The registry and the debounced sync: two plugins that call one after the
\* other, and a console that tracks Alice or nobody.
NextRegistry ==
    \/ Ensure({1}, Contexts, {"kills", "hp"})
    \/ Use({1}, Contexts, {"kills"}, {"Alice"})
    \/ TimerSteps({2}, {"There are no tracked entities",
                        "There are 1 tracked entity/entities: Alice"},
                  {[p \in Players |-> "has5"]})

SpecRegistry == Init /\ [][NextRegistry]_vars

\* The score cache: one plugin with one objective, which it reads under
\* every name.
NextScore ==
    \/ Ensure({1}, {"StatusPlugin"}, {"kills", "hp"})
    \/ Read({1}, {"StatusPlugin"}, Names, ListReplies,
            {[p \in Players |-> k] : k \in ReplyKinds})
    \/ CallerSteps

SpecScore == Init /\ [][NextScore]_vars

\* The triggers: one plugin registers in goroutine 1 while the log reader
\* dispatches in goroutine 0.
NextTrigger ==
    \/ RegisterBy({1}, {"StatusPlugin"}, MaxBatch)
    \/ LogStepsOf(0, LogInputs)

SpecTrigger == Init /\ [][NextTrigger]_vars

\* The trigger registry under concurrent registration: two plugins whose
\* namespaces agree, so that their trigger names can collide, register in
\* concurrent goroutines.
NextRegister == RegisterBy(1..MaxGoroutines, {"Plugin5338", "Plugin6406"}, 1)

SpecRegister == Init /\ [][NextRegister]_vars

\* What an earlier run of the daemon left on the console.
InitCleanup == \E objs \in ObjectiveLists : InitWith(objs)

\* The startup cleanup and the triggers of this run, in any order: one
\* plugin registers its triggers one by one, and players fire the first.
NextCleanup ==
    \/ RegisterBy({1}, {"StatusPlugin"}, 1)
    \/ LogStepsOf(0, {l \in LogInputs : l.form = "plain" /\ l.name = TriggerName(getNamespace("StatusPlugin"), 0)})
    \/ StartSteps(1)

SpecCleanup == InitCleanup /\ [][NextCleanup]_vars

\* The full sync: one plugin makes two objectives in goroutine 1 while the
\* debounce timers run syncScore in goroutine 2, the goroutine of
\* time.AfterFunc; the console tracks any of TrackedLists and answers Alice
\* with 7 or no score and Bob with 5 or no score, one of them with a score.
NextSync ==
    \/ Ensure({1}, {"StatusPlugin"}, {"kills", "deaths"})
    \/ TimerSteps({2},
                  {TrackedReply(players) : players \in TrackedLists} \cup {UnknownCommand},
                  {sheet \in Sheets : /\ sheet["Alice"] \in {"has7", "none"}
                                      /\ sheet["Bob"] \in {"has5", "none"}
                                      /\ sheet # [p \in Players |-> "none"]})

SpecSync == Init /\ [][NextSync]_vars

\* Plugins whose names differ, two of them with hashes that agree in the
\* 30 bits getNamespace keeps.
Tenants == {"StatusPlugin", "Plugin5338", "Plugin6406"}

\* The registry shared by the tenants, each with an objective "kills":
\* their calls run in goroutine 1, the debounce timers in goroutine 2.
NextNamespace ==
    \/ Ensure({1}, Tenants, {"kills"})
    \/ Use({1}, Tenants, {"kills"}, {"Alice"})
    \/ TimerSteps({2}, {"There are 1 tracked entity/entities: Alice"},
                  {[p \in Players |-> "has5"]})

SpecNamespace == Init /\ [][NextNamespace]_vars

\* Goroutines racing through ensureScoreboard for one plugin's objectives.
NextEnsure ==
    \/ \E g \in 1..MaxGoroutines, name \in {"kills", "deaths"} :
           ensureScoreboard(g, "StatusPlugin", name, "dummy", "Kills")
    \/ \E g \in 1..MaxGoroutines : requestSync(g)

SpecEnsure == Init /\ [][NextEnsure]_vars

\* getAllScore right after a score was set, with nothing in between: the
\* console tracks the player and answers the score it was set to.
ReadBack ==
    /\ op.call = "scoreAction"
    /\ op.input.action = "set"
    /\ cmds # <<>>
    /\ \E tracked \in {<<op.player>>, <<"Alice", "Bob">>, <<"Bob", "Alice">>} :
           getAllScore(1, TrackedReply(tracked),
                       [p \in Players |->
                           IF p = op.player THEN "has" \o FormatInt(op.input.count)
                                            ELSE "none"])

\* One plugin sets the scores of its objective, negative, zero and positive,
\* and reads them back.
NextReadBack ==
    \/ Ensure({1}, {"StatusPlugin"}, {"kills"})
    \/ \E player \in Players, count \in {-12, -3, 0, 3, 12} :
           scoreAction(1, "StatusPlugin", player, "kills", "set", count)
    \/ ReadBack
    \/ syncScore(1)

SpecReadBack == Init /\ [][NextReadBack]_vars

\* Both plugins initialised, PlayerInfo.Load reading one of StoredFiles.
InitPlayers == \E stored \in StoredFiles : InitCore(<<>>) /\ Loaded(stored)

\* Plugins read and write their Extra value of a player record they got
\* from GetPlayerInfo (which makes the Extra of a record stored without
\* one), in concurrent goroutines.
NextExtra ==
    \/ \E g \in 1..MaxGoroutines, mpi \in {a \in 1..Len(infos) : infos[a].Extra # NilMap},
          context \in Contexts :
           GetExtra(g, mpi, context)
    \/ \E g \in 1..MaxGoroutines, mpi \in {a \in 1..Len(infos) : infos[a].Extra # NilMap},
          context \in Contexts, value \in {8, 9} :
           PutExtra(g, mpi, context, [type |-> "int", text |-> "", value |-> value])

SpecExtra == InitPlayers /\ [][NextExtra]_vars

\* Plugins ask for the record of one player in concurrent goroutines, while
\* the player joins and leaves and the console answers or fails.
NextPlayerInfo ==
    \/ \E g \in 1..MaxGoroutines,
          playerlistMsg \in {"There are 0 of a max of 20 players online: ",
                             "There are 1 of a max of 20 players online: Alice",
                             UnknownCommand} :
           updatePlayerList(g, playerlistMsg)
    \/ \E g \in 1..MaxGoroutines : GetPlayerInfo(g, "Alice")
    \/ \E g \in 1..MaxGoroutines : GetPlayerInfo_Position(g, "Alice")
    \/ \E g \in 1..MaxGoroutines,
          uuid \in {[err |-> TRUE, uuid |-> ""],
                    [err |-> FALSE, uuid |-> "00000005-0000-0006-0000-000700000008"]} :
           getPlayerUUID(g, uuid)
    \/ \E g \in 1..MaxGoroutines,
          entityPosList \in {[err |-> TRUE, list |-> <<>>],
                             [err |-> FALSE, list |-> <<0, 64, 0>>],
                             [err |-> FALSE, list |-> <<0, 64>>]},
          entityDim \in {[err |-> TRUE, dimension |-> ""],
                         [err |-> FALSE, dimension |-> "minecraft:overworld"]} :
           getPlayerPosition(g, entityPosList, entityDim)

SpecPlayerInfo == InitPlayers /\ [][NextPlayerInfo]_vars

(***************************************************************************)
(* Properties                                                              *)
(***************************************************************************)

\* The number of times x occurs in list.
Count(list, x) == Cardinality({i \in 1..Len(list) : list[i] = x})

\* Whether s begins with lit.
HasPrefix(s, lit) == HasAt(s, 1, lit)

\* The content of an outer map when the inner maps are h: for each player
\* the entries of its inner map.
ContentIn(h, outer) == [p \in DOMAIN outer |-> h[outer[p]]]

\* The namespaced name the last handler was called for.
OpName == Namespaced(op.context, op.name)

\* Goroutine g enters a call of the handler in this step.
Begins(g, call) ==
    /\ running[g].pc = "idle"
    /\ running'[g].pc # "idle"
    /\ running'[g].op.call = call

\* Goroutine g leaves a call of the handler in this step, by a return or by
\* a panic.
Ends(g, call) ==
    /\ running[g].pc # "idle"
    /\ running[g].op.call = call
    /\ running'[g].pc = "idle"

\* C1 (SpecRegistry): debounce coalescing.  The calls of requestSync that
\* follow one another within the window cause exactly one full sync, and it
\* runs one window after the last of them: since the last call at most one
\* sync has run, and no timer is left armed that runs the sync sooner than
\* one window after the last call.
C1_OneSyncPerBurst ==
    lastRequest >= 0 =>
        /\ syncsSince <= 1
        /\ \A i \in 1..Len(timers) :
                timers[i].armed => timers[i].at >= lastRequest + DebounceWindow

\* C2 (SpecRegistry): ensureObjective is idempotent.  Whenever a call of it,
\* the first or a repeated one, is over, exactly one create command has been
\* issued for the namespaced name and the registry holds the name exactly
\* once.
C2_EnsureIdempotent ==
    op.call = "ensureScoreboard" =>
        /\ Count(created, OpName) = 1
        /\ Count(scorelist, OpName) = 1

\* The value a get-score reply of the model carries.
ReplyValue(kind) == IF kind = "has5" THEN 5 ELSE 7

\* C3 (SpecScore): getOneScore returns the refreshed value.  When it returns
\* for a registered objective and the reply read "<player> has <v>", it
\* returns v.
C3_ReturnsRefreshed ==
    [][\A g \in DOMAIN running :
        (/\ Ends(g, "getOneScore")
         /\ ~panicked'
         /\ SliceContains(scorelist, Namespaced(op'.context, op'.name))
         /\ op'.input \in {"has5", "has7"})
            => ret' = ReplyValue(op'.input)]_vars

\* C4 (SpecScore): no operation is fatal.  No handler panics, whatever the
\* console replies, whether or not the player has a cache entry, whatever
\* the length of the logical name.
C4_NeverPanics == ~panicked

\* The log lines that hold the text `[<player>: Triggered [<name>]`, with a
\* value group or with none: every form but the line of chat.
MatchingForms == {"plain", "set", "added", "tagged", "bare"}

\* The value a matching line carries: that of its digits, 0 without a value group.
LineValue(form, digits) == IF form = "plain" THEN 0 ELSE DecimalValue(digits)

\* C5 (SpecTrigger): trigger dispatch.  A line that holds the pattern
\* `[<player>: Triggered [<name>]`, with a value group or with none, for
\* player p, trigger t and value v, t being bound when the call looks it up,
\* starts the callback bound to t once, with (p, v), and v = 0 when the line
\* has no value group; a line that does not hold the pattern, or whose
\* trigger is not bound then, starts nothing.
C5_TriggerDispatch ==
    [][\A g \in DOMAIN running :
        /\ Begins(g, "processTrigger") =>
              LET call == running'[g].op
                  found == /\ call.input.form \in MatchingForms
                           /\ TrimSpace(call.name) \in DOMAIN trigger
              IN  /\ running'[g].l.ok = found
                  /\ found => running'[g].l.triggerFunc = trigger[TrimSpace(call.name)]
        /\ Ends(g, "processTrigger") =>
              IF running[g].l.ok
              THEN spawned' = <<[callback |-> running[g].l.triggerFunc,
                                 player |-> op'.player,
                                 value |-> LineValue(op'.input.form, op'.input.digits)]>>
              ELSE spawned' = <<>>]_vars


\* C6 (SpecTrigger): registerTrigger never returns a name twice.  Every name
\* it has returned it has returned once, and the name is still bound to the
\* callback it was returned for.
C6_NamesNeverReturnedTwice ==
    \A n \in DOMAIN bound :
        /\ Len(bound[n]) = 1
        /\ n \in DOMAIN trigger
        /\ trigger[n] = bound[n][1]

\* C6 happens: a call drew first a suffix whose name was bound, left that
\* name alone, and returned another.
C6_Witness ==
    /\ op.call = "registerTrigger"
    /\ Len(ret) = 1
    /\ LET first == TriggerName(getNamespace(op.context), op.input.draws[1])
       IN  /\ first \in DOMAIN trigger
           /\ ~SliceContains(ret, first)
    /\ Cardinality(DOMAIN bound) >= 2

\* The lines of the command Start issued after the list command.
Removed == IF Len(cmds) >= 2 THEN Split(cmds[2], "\n") ELSE <<>>

\* C7 (SpecTrigger): Start removes exactly the trigger objectives.  Of the
\* objectives the console lists, those whose names begin with "tri_" get a
\* remove command and no other does.
C7_RemovesExactlyTriggers ==
    op.call = "Start" =>
        \A i \in 1..Len(op.input) :
            HasPrefix(op.input[i], "tri_")
                <=> SliceContains(Removed, RemoveCommand(op.input[i]))

\* What the holder of a snapshot does to it.
CallerHandlers == {"callerPutsScore", "callerDeletesPlayer"}

\* C8 (SpecScore): getAllScores returns a deep copy.  No step of a handler of
\* the core changes a value in the snapshot the caller holds, and nothing
\* the caller does to the snapshot changes the cache.
C8_SnapshotIsDeepCopy ==
    [][/\ (snapshot # NoSnapshot /\ running' # running)
            => ContentIn(heap', snapshot) = ContentIn(heap, snapshot)
       /\ (op'.call \in CallerHandlers /\ running' = running)
            => score' = score /\ ContentIn(heap', score) = ContentIn(heap, score)]_vars

\* C9 (SpecRegistry): displayObjective and scoreAction are no-ops on an
\* unregistered objective.  Such a call issues no command, and no step of it
\* changes the registry, the cache, the trigger map or the debounce timer.
C9_UnregisteredIsNoOp ==
    [][\A g \in DOMAIN running : \A call \in {"displayScoreboard", "scoreAction"} :
        /\ (/\ Begins(g, call)
            /\ ~(\E i \in 1..Len(scorelist) :
                    scorelist[i] = Namespaced(running'[g].op.context, running'[g].op.name)))
                => UNCHANGED coreVars
        /\ (/\ Ends(g, call)
            /\ ~(\E i \in 1..Len(scorelist) :
                    scorelist[i] = Namespaced(op'.context, op'.name)))
                => cmds' = <<>> /\ UNCHANGED coreVars]_vars

\* C9 happens: scoreAction was called for an objective that is not
\* registered while another is, and issued nothing.
C9_Witness ==
    /\ op.call = "scoreAction"
    /\ Len(scorelist) > 0
    /\ \A i \in 1..Len(scorelist) : scorelist[i] # OpName
    /\ cmds = <<>>

\* C10 (SpecScore): getOneScore returns 0 for unknown entries.  When no
\* get-score reply for the player and the objective has ever parsed,
\* getOneScore returns 0.
C10_UnknownIsZero ==
    (/\ op.call = "getOneScore"
     /\ ~panicked
     /\ <<op.player, OpName>> \notin parsed)
        => ret = 0

\* C11 (SpecNamespace): namespace injectivity.  The namespace of a plugin is
\* a token of 5 characters, and two plugins whose names differ that ensure
\* the same logical name get different namespaced objectives.
C11_NamespacesDiffer ==
    \A a, b \in ensured :
        /\ Len(getNamespace(a.context)) = 5
        /\ (a.context # b.context /\ a.name = b.name)
              => Namespaced(a.context, a.name) # Namespaced(b.context, b.name)

\* C12 (SpecRegistry): single pending sync.  Whatever requestSync calls have
\* been made, at most one timer that will run the full sync is armed.
C12_SinglePendingSync ==
    Cardinality({i \in 1..Len(timers) : timers[i].armed}) <= 1

\* The locks a handler holds when it comes to the i-th step of tr: those it
\* took in an earlier step and has not released since.
Held(tr, i) ==
    {l \in Locks :
        \E j \in 1..(i - 1) :
            /\ tr[j].on = l
            /\ tr[j].event \in {"Lock", "RLock"}
            /\ \A k \in (j + 1)..(i - 1) :
                    ~(tr[k].on = l /\ tr[k].event \in {"Unlock", "RUnlock"})}

\* C13 (SpecRegistry): no command I/O under a lock.  No handler of the core
\* calls RunCommand while it holds the objective/score lock or the trigger
\* lock.
C13_NoCommandUnderLock ==
    \A i \in 1..Len(trace) :
        trace[i].event = "RunCommand" => Held(trace, i) = {}

\* C14 (SpecCleanup): a trigger registered in this process stays armed.
\* After any registerTrigger calls, trigger fires and Start calls, none of
\* them still running, every name bound in the trigger map has its
\* objective on the console and is bound to the callback it was returned
\* for.
C14_TriggersStayArmed ==
    (\A g \in DOMAIN running : running[g].pc = "idle") =>
        \A n \in DOMAIN trigger :
            /\ n \in server
            /\ n \in DOMAIN bound
            /\ trigger[n] = bound[n][1]

\* The kind of answer a sheet has for a player.
KindFor(sheet, player) == IF player \in DOMAIN sheet THEN sheet[player] ELSE "none"

\* The cache entry of a player and an objective when the outer map is
\* outer and the inner maps are h: <<value>>, or <<>> when there is none.
Entry(h, outer, player, nsname) ==
    IF player \in DOMAIN outer /\ nsname \in DOMAIN h[outer[player]]
    THEN <<h[outer[player]][nsname]>>
    ELSE <<>>

\* C15 (SpecSync): full sync coverage.  For an enumeration reply that lists
\* N >= 1 players, N of ten included, a full sync issues after the list
\* command exactly one get-score command for each pair of a listed player
\* and a registered objective, players in the order of the reply and
\* objectives in that of the registry, and when it returns the cache entry
\* of every pair whose reply parsed is the value of that reply.
C15_SyncCoversEveryPair ==
    [][\A g \in DOMAIN running : \A players \in TrackedLists \ {<<>>} :
        (Ends(g, "syncScore") /\ op'.input.list = TrackedReply(players)) =>
            /\ Len(cmds') = 1 + Len(players) * Len(scorelist)
            /\ \A i \in 1..Len(players), j \in 1..Len(scorelist) :
                /\ cmds'[1 + (i - 1) * Len(scorelist) + j]
                        = GetCommand(players[i], scorelist[j])
                /\ KindFor(op'.input.sheet, players[i]) \in {"has5", "has7"}
                        => Entry(heap', score', players[i], scorelist[j])
                            = <<ReplyValue(KindFor(op'.input.sheet, players[i]))>>]_vars

\* C16 (SpecSync): full sync frame.  A full sync changes the cache entry of
\* a player and an objective only when the reply enumerates the player, the
\* registry holds the objective and the get-score reply for the pair
\* parsed; no step of it changes any other entry, and a sync whose
\* enumeration reply is not of the grammar changes none.
C16_SyncFrame ==
    [][\A g \in DOMAIN running :
        (/\ running[g].pc \in {"syncScore.matched", "syncScore.get"}
         /\ running[g].op.call = "syncScore"
         /\ running'[g] # running[g]) =>
            \A player \in DOMAIN score' : \A nsname \in DOMAIN heap'[score'[player]] :
                Entry(heap', score', player, nsname) # Entry(heap, score, player, nsname) =>
                    /\ \E players \in TrackedLists :
                            /\ running[g].op.input.list = TrackedReply(players)
                            /\ SliceContains(players, player)
                    /\ SliceContains(scorelist, nsname)
                    /\ KindFor(running[g].op.input.sheet, player) \in {"has5", "has7"}]_vars

\* C16 happens: a sync that enumerated Alice alone gave her entries the
\* value of her replies and left those of Bob, enumerated by an earlier
\* sync, as they were.
C16_Witness ==
    /\ op.call = "syncScore"
    /\ op.input.list = TrackedReply(<<"Alice">>)
    /\ Len(scorelist) = 2
    /\ \A j \in 1..Len(scorelist) :
        /\ Entry(heap, score, "Alice", scorelist[j]) = <<7>>
        /\ Entry(heap, score, "Bob", scorelist[j]) = <<5>>

\* The namespaced objectives of the plugins.
Objectives == {Namespaced(context, name) : context \in Contexts, name \in Names}

\* Whether text is a setdisplay, score or get-score command for the objective X.
UsesObjective(text, X) ==
    /\ ~HasPrefix(text, "scoreboard objectives add ")
    /\ Contains(text \o " ", " " \o X \o " ")

\* Whether text is the create command for the objective X.
CreatesObjective(text, X) == HasPrefix(text, "scoreboard objectives add " \o X \o " ")

\* The commands goroutine g issues in this step: those its frame, or what it
\* leaves behind when it returns, holds beyond those it held.
Issued(g) ==
    LET before == IF running[g].pc = "idle" THEN <<>> ELSE running[g].cmds
        after == IF running'[g].pc = "idle" THEN cmds' ELSE running'[g].cmds
    IN  SubSeq(after, Len(before) + 1, Len(after))

\* C17 (SpecRegistry): create before use.  A handler issues a setdisplay,
\* score or get-score command for an objective only when the create command
\* for it was issued, and had returned, before; a create command is on
\* record only for a command that was issued; and a handler that puts an
\* objective into the registry has issued the create command for it, which
\* returned before the handler took the lock to append.
C17_CreateBeforeUse ==
    [][\A g \in DOMAIN running : running'[g] # running[g] =>
        \A X \in Objectives :
            /\ (\E i \in 1..Len(Issued(g)) : UsesObjective(Issued(g)[i], X))
                    => SliceContains(created, X)
            /\ (SliceContains(created', X) /\ ~SliceContains(created, X))
                    => \E i \in 1..Len(Issued(g)) : CreatesObjective(Issued(g)[i], X)
            /\ (SliceContains(scorelist', X) /\ ~SliceContains(scorelist, X))
                    => /\ SliceContains(created, X)
                       /\ \E i \in 1..Len(running[g].cmds) :
                            CreatesObjective(running[g].cmds[i], X)]_vars

\* C17 happens: the full sync asked for the score of an objective that an
\* earlier ensureScoreboard had created and registered.
C17_Witness ==
    /\ op.call = "syncScore"
    /\ Len(cmds) >= 2
    /\ \E X \in Objectives :
        /\ UsesObjective(cmds[2], X)
        /\ SliceContains(created, X)
        /\ SliceContains(scorelist, X)

\* The positions of a trace at which the handler did what.
StepsOf(tr, what) == {i \in 1..Len(tr) : tr[i].event = what}

\* C18 (SpecTrigger): re-arm on every fire.  A line that holds the pattern
\* `[<player>: Triggered [<name>]` and names a trigger t that is bound when
\* the call looks it up causes exactly one command, `scoreboard players
\* enable @a t`, issued before the callback of the fire is started; such a
\* line whose trigger is not bound then, and a line that does not hold the
\* pattern, cause none.
C18_RearmOnFire ==
    [][\A g \in DOMAIN running :
        /\ Begins(g, "processTrigger") =>
              running'[g].l.ok = (/\ running'[g].op.input.form \in MatchingForms
                                  /\ TrimSpace(running'[g].op.name) \in DOMAIN trigger)
        /\ Ends(g, "processTrigger") =>
              IF running[g].l.ok
              THEN /\ cmds' = <<"scoreboard players enable @a " \o TrimSpace(op'.name)>>
                   /\ Cardinality(StepsOf(trace', "RunCommand")) = 1
                   /\ Cardinality(StepsOf(trace', "go")) = 1
                   /\ \A i \in StepsOf(trace', "RunCommand"), k \in StepsOf(trace', "go") :
                          i < k /\ trace'[i].on = cmds'[1]
              ELSE /\ cmds' = <<>>
                   /\ StepsOf(trace', "RunCommand") = {}]_vars


\* C19 (SpecTrigger): the log-dispatch path does not block on the command
\* path.  The callback the core registers for the log lines returns for
\* every line without a RunCommand round-trip of its own.
C19_LogPathNeverWaits ==
    op.call = "processTrigger" => StepsOf(trace, "RunCommand") = {}

\* The 2k lines of the transaction for the names: for each name in order
\* the line that makes the trigger and the line that enables it.
BatchLines(names) ==
    [n \in 1..(2 * Len(names)) |->
        IF n % 2 = 1
        THEN "scoreboard objectives add " \o names[(n + 1) \div 2] \o " trigger"
        ELSE "scoreboard players enable @a " \o names[n \div 2]]

\* C20 (SpecTrigger): registerTrigger batches its commands.  A call with k
\* callbacks makes one RunCommand, holding no lock, with the 2k lines that
\* make and enable the k names in the order of the callbacks; it returns
\* the k names in that order, the i-th bound to the i-th callback.
C20_RegisterBatches ==
    op.call = "registerTrigger" =>
        /\ Len(ret) = Len(op.input.goFunc)
        /\ Len(cmds) = 1
        /\ Len(ret) > 0 => Split(cmds[1], "\n") = BatchLines(ret)
        /\ Len(ret) = 0 => cmds[1] = ""
        /\ Cardinality(StepsOf(trace, "RunCommand")) = 1
        /\ \A i \in StepsOf(trace, "RunCommand") :
                trace[i].on = cmds[1] /\ Held(trace, i) = {}
        /\ \A i \in 1..Len(ret) :
                ret[i] \in DOMAIN trigger /\ trigger[ret[i]] = op.input.goFunc[i]

\* C20 happens: a call with two different callbacks returned two names.
C20_Witness ==
    /\ op.call = "registerTrigger"
    /\ Len(ret) = 2
    /\ ret[1] # ret[2]
    /\ op.input.goFunc[1] # op.input.goFunc[2]
    /\ Len(Split(cmds[1], "\n")) = 4

\* C21: however concurrent ensureScoreboard calls for the same plugin and
\* name interleave, the registry holds the namespaced name at most once and
\* at most one create command is issued for it.
C21_RegistryHasNoDuplicates ==
    /\ \A i \in 1..Len(scorelist) : Count(scorelist, scorelist[i]) = 1
    /\ \A i \in 1..Len(created) : Count(created, created[i]) = 1

\* C22 (SpecReadBack): sequential read-after-write.  When scoreAction has
\* set the score of a player for a registered objective to n, negative n
\* included, and getAllScore is the next operation, the snapshot it returns
\* holds n for the player and the namespaced name.
C22_ReadAfterWrite ==
    [][(/\ op.call = "scoreAction"
        /\ op.input.action = "set"
        /\ cmds # <<>>
        /\ op'.call = "getAllScore")
       => /\ op.player \in DOMAIN snapshot'
          /\ OpName \in DOMAIN heap'[snapshot'[op.player]]
          /\ heap'[snapshot'[op.player]][OpName] = op.input.count]_vars

\* C23 (SpecExtra): PutExtra is never lost.  Once PutExtra has returned and
\* every GetExtra has returned, the Extra value of the plugin is the one
\* PutExtra stored: no GetExtra that read the raw JSON value before the
\* PutExtra writes its decoded value over it.
C23_PutExtraNeverLost ==
    (/\ op.call = "PutExtra"
     /\ ~panicked
     /\ \A g \in 1..MaxGoroutines : running[g].pc = "idle")
        => infos[op.input.mpi].Extra[op.context] = op.input.extra

\* C24 (SpecPlayerInfo): one record per player.  Once the concurrent
\* GetPlayerInfo calls have returned, every call that succeeded returned the
\* record the playerInfo map holds for its player, so all of them returned
\* the same record and none a record that was replaced in the map.
C24_OneRecordPerPlayer ==
    (\A g \in 1..MaxGoroutines : running[g].pc = "idle")
        => \A g \in 1..MaxGoroutines :
               (/\ "err" \in DOMAIN running[g]
                /\ running[g].op.call = "GetPlayerInfo"
                /\ ~running[g].err)
                   => running[g].ret = playerInfo[running[g].op.player]

====
